---- MODULE Spec2Model ----
(***************************************************************************)
(* A model of libsys4: the copy-on-write string container (string.c), the  *)
(* byte buffer (buffer.c, buffer.h), the archive abstraction and its       *)
(* backends (archive.c, ald.c, afa.c, aar.c, alk.c, dlf.c), the            *)
(* disassembler cursor (dasm.c), the version-patched instruction table     *)
(* (instructions.c, ain.c) and the ain builder functions (ain.c).          *)
(*                                                                         *)
(* Every subsystem owns a group of variables and a specification of its    *)
(* own (SpecString, SpecBuffer, ...); the variables of the other           *)
(* subsystems stay at their initial value under that specification.        *)
(***************************************************************************)
EXTENDS Integers, Sequences, FiniteSets, TLC

VARIABLES
    strs,       \* string.c: the heap of struct string objects
    hold,       \* string.c: the struct string * each holder owns (0 = NULL)
    slast,      \* string.c: the last string operation and the views before it
    buf,        \* buffer.c: struct buffer .buf (the bytes)
    bindex,     \* buffer.c: struct buffer .index
    bres,       \* buffer.c: outcome of the last buffer operation
    ar,         \* archive.h: the opened struct archive (backend, file table)
    desc,       \* archive.h: the struct archive_data the client holds
    heap,       \* payload buffers: live heap buffers and bad calls of free
    iter,       \* archive_for_each: loop index and the entries visited so far
    acall,      \* archive.h: the lookup that produced desc
    aar,        \* aar.h: struct aar_archive of the link-chain model
    aload,      \* aar_load_file in progress: its position and its result
    aget,       \* afa.c: the heap objects and the descriptor of afa_get calls
    rnd,        \* afa3.c: the generator of static storage
    dict,       \* afa3.c: the dictionary of static storage
    decoders,   \* afa3.c: the calls of afa3_read_metadata in progress
    dasm,       \* dasm.h: struct dasm (func, func_stack, instr, end of code)
    dtrack,     \* the FUNC instructions passed and not yet closed
    dcode,      \* a code section, the cursor on it and the last dasm_peek
    instructions, \* instructions.c: the version-dependent entries of instructions[]
    ain,        \* ain.h: the struct ain opened or created last
    ilast,      \* the last ain load or explicit table initialisation
    gs,         \* savefile.h: the struct gsave a client builds
    gfile,      \* savefile.c: the fields of the file gsave_write produced
    gres,       \* savefile.c: what gsave_read made of the file
    rfile,      \* savefile.c: the fields of the rsave file read last
    rres,       \* savefile.c: what rsave_read made of it
    table_layout, \* ex.c: the static table_layout
    ex,         \* ex.c: the blocks of the ex object
    exlast,     \* ex.c: the last call on EX data and what it returned
    qcg,        \* qnt.c: the cg given to qnt_write
    qfile,      \* qnt.c: the QNT file written
    qout        \* qnt.c: the cg extracted from the file

strVars == <<strs, hold, slast>>
bufVars == <<buf, bindex, bres>>
arVars == <<ar, desc, heap, iter, acall>>
aarVars == <<aar, aload>>
afaVars == <<aget>>
afa3Vars == <<rnd, dict, decoders>>
dasmVars == <<dasm, dtrack, dcode>>
ainVars == <<instructions, ain, ilast>>
savVars == <<gs, gfile, gres>>
rsvVars == <<rfile, rres>>
exVars == <<table_layout, ex, exlast>>
qntVars == <<qcg, qfile, qout>>

\* the variables an operation of one subsystem leaves alone
notStr == <<bufVars, arVars, aarVars, afaVars, afa3Vars, dasmVars, ainVars, savVars, rsvVars, exVars, qntVars>>
notBuf == <<strVars, arVars, aarVars, afaVars, afa3Vars, dasmVars, ainVars, savVars, rsvVars, exVars, qntVars>>
notAr == <<strVars, bufVars, aarVars, afaVars, afa3Vars, dasmVars, ainVars, savVars, rsvVars, exVars, qntVars>>
notAar == <<strVars, bufVars, arVars, afaVars, afa3Vars, dasmVars, ainVars, savVars, rsvVars, exVars, qntVars>>
notAfa == <<strVars, bufVars, arVars, aarVars, afa3Vars, dasmVars, ainVars, savVars, rsvVars, exVars, qntVars>>
notAfa3 == <<strVars, bufVars, arVars, aarVars, afaVars, dasmVars, ainVars, savVars, rsvVars, exVars, qntVars>>
notDasm == <<strVars, bufVars, arVars, aarVars, afaVars, afa3Vars, ainVars, savVars, rsvVars, exVars, qntVars>>
notAin == <<strVars, bufVars, arVars, aarVars, afaVars, afa3Vars, dasmVars, savVars, rsvVars, exVars, qntVars>>
notSav == <<strVars, bufVars, arVars, aarVars, afaVars, afa3Vars, dasmVars, ainVars, rsvVars, exVars, qntVars>>
notRsv == <<strVars, bufVars, arVars, aarVars, afaVars, afa3Vars, dasmVars, ainVars, savVars, exVars, qntVars>>
notEx == <<strVars, bufVars, arVars, aarVars, afaVars, afa3Vars, dasmVars, ainVars, savVars, rsvVars, qntVars>>
notQnt == <<strVars, bufVars, arVars, aarVars, afaVars, afa3Vars, dasmVars, ainVars, savVars, rsvVars, exVars>>

(***************************************************************************)
(*                      string.c : struct string                           *)
(***************************************************************************)

\* bounds of the string model
NHolders == 2
MaxStrObjs == 3
MaxStrLen == 2

Holders == 1..NHolders

\* Shift-JIS payloads: 65 'A', 66 'B' are single bytes, 129 (0x81) is a lead byte
Texts == { <<>>, <<65>>, <<129, 65>>, <<65, 66>> }

\* characters passed to push_back / set_char: 'B', the pair 0x81 0x41, and NUL
Chars == { 66, 16769, 0 }

\* utfsjis.h SJIS_2BYTE: is the (low) byte a Shift-JIS lead byte
SJIS_2BYTE(b) ==
    LET lo == b % 256
    IN  (lo >= 129 /\ lo <= 159) \/ (lo >= 224 /\ lo <= 252)

\* text[i] of a NUL-terminated C string, i counted from 0
ByteAt(t, i) == IF i >= 0 /\ i < Len(t) THEN t[i + 1] ELSE 0

\* utfsjis.c sjis_index: byte index of the character number `index`, or -1
RECURSIVE SjisWalk(_, _, _, _)
SjisWalk(t, i, c, index) ==
    IF c < index /\ ByteAt(t, i) # 0
    THEN IF SJIS_2BYTE(ByteAt(t, i))
         THEN IF ByteAt(t, i + 1) = 0 THEN -1 ELSE SjisWalk(t, i + 2, c + 1, index)
         ELSE SjisWalk(t, i + 1, c + 1, index)
    ELSE IF ByteAt(t, i) # 0 THEN i ELSE -1

sjis_index(t, index) == SjisWalk(t, 0, 0, index)

\* string.c string_dup: a fresh object with the same bytes
string_dup(s) == [ref |-> 1, cow |-> FALSE, text |-> s.text]

\* string.c cow_check: clone a shared string, or clear the flag of an unshared one.
\* The result is the heap after the call and the object the caller continues with.
cow_check(S, id) ==
    IF S[id].cow /\ S[id].ref > 1
    THEN [strs |-> Append([S EXCEPT ![id].ref = @ - 1], string_dup(S[id])),
          id   |-> Len(S) + 1]
    ELSE IF S[id].cow
         THEN [strs |-> [S EXCEPT ![id].cow = FALSE], id |-> id]
         ELSE [strs |-> S, id |-> id]

\* string.c string_realloc: cow_check, then resize (new bytes are filled by the caller)
string_realloc(S, id) == cow_check(S, id)

\* what a holder observes: the bytes (and with them the size) of its string
NoView == <<-1>>
View(h) == IF hold[h] = 0 THEN NoView ELSE strs[hold[h]].text
Views == [h \in Holders |-> View(h)]

Shared(h) == hold[h] # 0 /\ strs[hold[h]].ref > 1

\* room for the clone a mutation of a shared string allocates
CanClone(h) == Shared(h) => Len(strs) < MaxStrObjs

Note(op, h) ==
    /\ slast' = [op |-> op, h |-> h, shared |-> Shared(h), before |-> Views]
    /\ UNCHANGED notStr

\* the first n bytes of t
Take(t, n) == SubSeq(t, 1, n)
\* the bytes of t from byte index i (counted from 0) on
Drop(t, i) == SubSeq(t, i + 1, Len(t))

\* string.c free_string, free(str): the object no longer holds anything
FreedString == [ref |-> 0, cow |-> FALSE, text |-> <<>>]

\* string.c make_string
MakeString(h, t) ==
    /\ hold[h] = 0
    /\ Len(strs) < MaxStrObjs
    /\ strs' = Append(strs, [ref |-> 1, cow |-> FALSE, text |-> t])
    /\ hold' = [hold EXCEPT ![h] = Len(strs) + 1]
    /\ Note("make", h)

\* string.c string_ref
StringRef(h, h2) ==
    /\ hold[h] # 0
    /\ hold[h2] = 0
    /\ strs' = [strs EXCEPT ![hold[h]].cow = TRUE, ![hold[h]].ref = @ + 1]
    /\ hold' = [hold EXCEPT ![h2] = hold[h]]
    /\ Note("ref", h2)

\* string.c free_string
FreeString(h) ==
    /\ hold[h] # 0
    /\ strs[hold[h]].ref > 0
    /\ strs' = [strs EXCEPT ![hold[h]] =
                    IF @.ref = 1 THEN FreedString ELSE [@ EXCEPT !.ref = @ - 1]]
    /\ hold' = [hold EXCEPT ![h] = 0]
    /\ Note("free", h)

\* string.c string_append
StringAppend(h, b) ==
    /\ hold[h] # 0
    /\ CanClone(h)
    /\ Len(strs[hold[h]].text) + Len(b) <= MaxStrLen
    /\ LET r == string_realloc(strs, hold[h])
       IN  /\ strs' = [r.strs EXCEPT ![r.id].text = @ \o b]
           /\ hold' = [hold EXCEPT ![h] = r.id]
    /\ Note("append", h)

\* string.c string_append_cstr
StringAppendCstr(h, b) ==
    /\ hold[h] # 0
    /\ CanClone(h)
    /\ Len(strs[hold[h]].text) + Len(b) <= MaxStrLen
    /\ IF Len(b) = 0
       THEN UNCHANGED <<strs, hold>>
       ELSE LET r == string_realloc(strs, hold[h])
            IN  /\ strs' = [r.strs EXCEPT ![r.id].text = @ \o b]
                /\ hold' = [hold EXCEPT ![h] = r.id]
    /\ Note("append", h)

\* string.c string_push_back
StringPushBack(h, c) ==
    /\ hold[h] # 0
    /\ c # 0
    /\ CanClone(h)
    /\ LET bytes == IF SJIS_2BYTE(c) THEN 2 ELSE 1
           r == string_realloc(strs, hold[h])
           added == IF bytes = 2 THEN <<c % 256, c \div 256>> ELSE <<c % 256>>
       IN  /\ Len(strs[hold[h]].text) + bytes <= MaxStrLen
           /\ strs' = [r.strs EXCEPT ![r.id].text = @ \o added]
           /\ hold' = [hold EXCEPT ![h] = r.id]
    /\ Note("push_back", h)

\* string.c string_pop_back, the loop: the byte index of the last character
RECURSIVE LastCharIndex(_, _, _)
LastCharIndex(t, i, c) ==
    IF i < Len(t)
    THEN LastCharIndex(t, IF SJIS_2BYTE(ByteAt(t, i)) THEN i + 2 ELSE i + 1, i)
    ELSE c

\* string.c string_pop_back
StringPopBack(h) ==
    /\ hold[h] # 0
    /\ CanClone(h)
    /\ LET r == cow_check(strs, hold[h])
           c == LastCharIndex(r.strs[r.id].text, 0, 0)
       IN  /\ strs' = [r.strs EXCEPT ![r.id].text = Take(@, c)]
           /\ hold' = [hold EXCEPT ![h] = r.id]
    /\ Note("pop_back", h)

\* string.c string_erase
StringErase(h, idx) ==
    /\ hold[h] # 0
    /\ CanClone(h)
    /\ LET t == strs[hold[h]].text
           index0 == IF idx < 0 THEN 0 ELSE idx
           index == sjis_index(t, index0)
           bytes == IF SJIS_2BYTE(ByteAt(t, index)) THEN 2 ELSE 1
       IN  IF index0 >= Len(t) \/ index < 0
           THEN UNCHANGED <<strs, hold>>
           ELSE LET r == cow_check(strs, hold[h])
                IN  /\ strs' = [r.strs EXCEPT ![r.id].text =
                                    Take(@, index) \o Drop(@, index + bytes)]
                    /\ hold' = [hold EXCEPT ![h] = r.id]
    /\ Note("erase", h)

\* string.c string_set_char; an index outside the string is a fatal ERROR
StringSetChar(h, i0, c) ==
    /\ hold[h] # 0
    /\ CanClone(h)
    /\ i0 >= 0 /\ i0 < Len(strs[hold[h]].text)
    /\ LET r == cow_check(strs, hold[h])
           t == r.strs[r.id].text
           i == sjis_index(t, i0)
           bytes_src == IF SJIS_2BYTE(c) THEN 2 ELSE 1
           bytes_dst == IF SJIS_2BYTE(ByteAt(t, i)) THEN 2 ELSE 1
           enc == IF bytes_src = 2 THEN <<c % 256, (c \div 256) % 256>> ELSE <<c % 256>>
           t2 == IF i < 0 THEN t
                 ELSE IF c = 0 THEN Take(t, i)
                 ELSE Take(t, i) \o enc \o Drop(t, i + bytes_dst)
       IN  /\ Len(t2) <= MaxStrLen
           /\ strs' = [r.strs EXCEPT ![r.id].text = t2]
           /\ hold' = [hold EXCEPT ![h] = r.id]
    /\ Note("set_char", h)

\* string.c string_clear: writes size and text[0] of the object it is given
StringClear(h) ==
    /\ hold[h] # 0
    /\ strs' = [strs EXCEPT ![hold[h]].text = <<>>]
    /\ UNCHANGED hold
    /\ Note("clear", h)

StrInit ==
    /\ strs = <<>>
    /\ hold = [h \in Holders |-> 0]
    /\ slast = [op |-> "init", h |-> 0, shared |-> FALSE,
                before |-> [h \in Holders |-> NoView]]

StrNext ==
    \/ \E h \in Holders, t \in Texts : MakeString(h, t)
    \/ \E h \in Holders, h2 \in Holders : StringRef(h, h2)
    \/ \E h \in Holders : FreeString(h)
    \/ \E h \in Holders, b \in Texts : StringAppend(h, b)
    \/ \E h \in Holders, b \in Texts : StringAppendCstr(h, b)
    \/ \E h \in Holders, c \in Chars : StringPushBack(h, c)
    \/ \E h \in Holders : StringPopBack(h)
    \/ \E h \in Holders, idx \in -1..MaxStrLen : StringErase(h, idx)
    \/ \E h \in Holders, i \in 0..MaxStrLen, c \in Chars : StringSetChar(h, i, c)
    \/ \E h \in Holders : StringClear(h)

(***************************************************************************)
(*                      buffer.c : struct buffer                           *)
(***************************************************************************)

\* bounds of the buffer model
MaxBufLen == 4
MaxSeek == 5
MaxCursor == 12

\* byte values: NUL, 2 (a small length), 'A', and 0xFF (sign bit of an int32)
Bytes == {0, 2, 65, 255}

RECURSIVE SeqsUpTo(_, _)
SeqsUpTo(S, n) ==
    IF n = 0 THEN { <<>> }
    ELSE LET shorter == SeqsUpTo(S, n - 1)
         IN  shorter \cup { Append(q, x) : q \in { r \in shorter : Len(r) = n - 1 }, x \in S }

\* literals handed to buffer_check_bytes
Literals == { <<65>>, <<65, 2>>, <<0, 65>>, <<2, 0>> }

\* size_t arithmetic wraps; the modulus stands for 2^64 (all model values are tiny)
SizeMod == 1073741824

bsize == Len(buf)

\* buf[i], i counted from 0
BufAt(i) == buf[i + 1]

Min(a, b) == IF a < b THEN a ELSE b

\* little_endian.h LittleEndian_getDW as a signed 32-bit value
GetDW(i) ==
    LET u == BufAt(i) + 256 * BufAt(i + 1) + 65536 * BufAt(i + 2)
        top == BufAt(i + 3)
    IN  IF top >= 128 THEN u + 16777216 * (top - 256) ELSE u + 16777216 * top

\* buffer.c buffer_remaining: size - index in size_t
buffer_remaining == (bsize - bindex) % SizeMod

\* buffer.c buffer_skip: the index after skipping off bytes from index i
SkipFrom(i, off) == Min(i + off, bsize)

\* strlen(buffer_strdata(r)) when a NUL lies inside the buffer, else -1
StrlenAt(i) ==
    IF i <= bsize /\ \E z \in i..(bsize - 1) : BufAt(z) = 0
    THEN (CHOOSE z \in i..(bsize - 1) : BufAt(z) = 0 /\ \A y \in i..(z - 1) : BufAt(y) # 0) - i
    ELSE -1

\* strncmp(buffer_strdata(r), data, n) = 0, for index + n <= size
RECURSIVE StrncmpEq(_, _, _)
StrncmpEq(i, data, k) ==
    IF k > Len(data) THEN TRUE
    ELSE IF BufAt(i + k - 1) # data[k] THEN FALSE
    ELSE IF data[k] = 0 THEN TRUE
    ELSE StrncmpEq(i, data, k + 1)

\* the bytes at index i are exactly the literal
BytesEqual(i, data) ==
    /\ i + Len(data) <= bsize
    /\ \A k \in 1..Len(data) : BufAt(i + k - 1) = data[k]

\* outcome record of an operation: status is "ok", "error" (the ERROR macro:
\* fatal out-of-bounds report) or "overread" (bytes beyond size were read)
Res(op, status, arg, exceed) ==
    [op |-> op, status |-> status, pre |-> bindex, arg |-> arg, exceed |-> exceed]

\* the process ended at the first ERROR; cursors beyond MaxCursor are not followed
Running == bres.status # "error" /\ bindex <= MaxCursor

\* buffer.c buffer_read_u8 / buffer_read_u16 / buffer_read_int32 / buffer_read_float
ReadFixed(op, n) ==
    /\ Running
    /\ IF bindex + n > bsize
       THEN /\ bres' = Res(op, "error", n, TRUE)
            /\ UNCHANGED bindex
       ELSE /\ bres' = Res(op, "ok", n, FALSE)
            /\ bindex' = bindex + n
    /\ UNCHANGED <<buf, notBuf>>

buffer_read_u8 == ReadFixed("read_u8", 1)
buffer_read_u16 == ReadFixed("read_u16", 2)
buffer_read_int32 == ReadFixed("read_int32", 4)
buffer_read_float == ReadFixed("read_float", 4)

\* buffer.c buffer_read_bytes
buffer_read_bytes(n) ==
    /\ Running
    /\ IF buffer_remaining < n
       THEN /\ bres' = Res("read_bytes", "error", n, TRUE)
            /\ UNCHANGED bindex
       ELSE /\ bres' = Res("read_bytes",
                           IF bindex + n > bsize THEN "overread" ELSE "ok",
                           n, bindex + n > bsize)
            /\ bindex' = bindex + n
    /\ UNCHANGED <<buf, notBuf>>

\* buffer.c buffer_read_string / buffer_skip_string: strlen runs until it meets a
\* NUL; without one inside the buffer it reads past size (undefined behaviour:
\* any length from the bytes that follow the buffer)
ReadCString(op) ==
    /\ Running
    /\ LET len == StrlenAt(bindex)
       IN  IF len >= 0
           THEN /\ bres' = Res(op, "ok", len + 1, FALSE)
                /\ bindex' = SkipFrom(bindex, len + 1)
           ELSE \E over \in 0..1 :
                /\ bres' = Res(op, "overread", over, TRUE)
                /\ bindex' = SkipFrom(bindex, buffer_remaining + over + 1)
    /\ UNCHANGED <<buf, notBuf>>

buffer_read_string == ReadCString("read_string")
buffer_skip_string == ReadCString("skip_string")

\* buffer.c buffer_read_pascal_string
buffer_read_pascal_string ==
    /\ Running
    /\ IF bindex + 4 > bsize
       THEN /\ bres' = Res("read_pascal_string", "error", 0, TRUE)
            /\ UNCHANGED bindex
       ELSE LET len == GetDW(bindex)
            IN  IF len < 0
                THEN /\ bres' = Res("read_pascal_string", "error", len, FALSE)
                     /\ bindex' = bindex + 4
                ELSE /\ bres' = Res("read_pascal_string",
                                    IF bindex + 4 + len > bsize THEN "overread" ELSE "ok",
                                    len, bindex + 4 + len > bsize)
                     /\ bindex' = bindex + 4 + len
    /\ UNCHANGED <<buf, notBuf>>

\* buffer.c buffer_conv_pascal_string
buffer_conv_pascal_string ==
    /\ Running
    /\ IF bindex + 4 > bsize
       THEN /\ bres' = Res("conv_pascal_string", "error", 0, TRUE)
            /\ UNCHANGED bindex
       ELSE LET len == GetDW(bindex)
            IN  IF len <= 0
                THEN /\ bres' = Res("conv_pascal_string", "ok", len, FALSE)
                     /\ bindex' = bindex + 4
                ELSE /\ bres' = Res("conv_pascal_string",
                                    IF bindex + 4 + len > bsize THEN "overread" ELSE "ok",
                                    len, bindex + 4 + len > bsize)
                     /\ bindex' = SkipFrom(bindex + 4, len)
    /\ UNCHANGED <<buf, notBuf>>

\* buffer.c buffer_skip
buffer_skip(off) ==
    /\ Running
    /\ bindex' = SkipFrom(bindex, off)
    /\ bres' = Res("skip", "ok", off, FALSE)
    /\ UNCHANGED <<buf, notBuf>>

\* buffer.h buffer_seek
buffer_seek(off) ==
    /\ Running
    /\ bindex' = off
    /\ bres' = Res("seek", "ok", off, FALSE)
    /\ UNCHANGED <<buf, notBuf>>

\* buffer.h buffer_align: (index + (p-1)) & ~(p-1) for a power of two p
buffer_align(p) ==
    /\ Running
    /\ bindex' = ((bindex + (p - 1)) \div p) * p
    /\ bres' = Res("align", "ok", p, FALSE)
    /\ UNCHANGED <<buf, notBuf>>

\* buffer.c buffer_check_bytes: the comparison, then buffer_skip(r, n) in every case.
\* arg records the literal and the returned value.
buffer_check_bytes(data) ==
    /\ Running
    /\ LET n == Len(data)
           far == buffer_remaining >= n /\ bindex + n > bsize
           eq == buffer_remaining >= n /\ ~far /\ StrncmpEq(bindex, data, 1)
       IN  /\ bres' = Res("check_bytes", IF far THEN "overread" ELSE "ok",
                          [data |-> data, eq |-> eq], far)
           /\ bindex' = SkipFrom(bindex, n)
    /\ UNCHANGED <<buf, notBuf>>

\* buffer.c buffer_init over every byte region of the model
BufInit ==
    /\ buf \in SeqsUpTo(Bytes, MaxBufLen)
    /\ bindex = 0
    /\ bres = [op |-> "init", status |-> "ok", pre |-> 0, arg |-> 0, exceed |-> FALSE]

BufNext ==
    \/ buffer_read_u8
    \/ buffer_read_u16
    \/ buffer_read_int32
    \/ buffer_read_float
    \/ \E n \in 0..2 : buffer_read_bytes(n)
    \/ buffer_read_string
    \/ buffer_skip_string
    \/ buffer_read_pascal_string
    \/ buffer_conv_pascal_string
    \/ \E off \in 0..2 : buffer_skip(off)
    \/ \E off \in 0..MaxSeek : buffer_seek(off)
    \/ \E p \in {1, 2, 4} : buffer_align(p)
    \/ \E data \in Literals : buffer_check_bytes(data)

BufIdle ==
    /\ buf = <<>>
    /\ bindex = 0
    /\ bres = [op |-> "idle"]

StrIdle ==
    /\ strs = <<>>
    /\ hold = [h \in Holders |-> 0]
    /\ slast = [op |-> "idle"]

(***************************************************************************)
(*  archive.h, ald.c, afa.c, aar.c, alk.c, dlf.c: archives                 *)
(*                                                                         *)
(*  An opened archive is immutable: its file table is fixed by the open    *)
(*  call.  File names are byte strings.  Payload pointers are modelled by  *)
(*  their provenance: 0 is NULL, MapPtr is a pointer into the mapping of   *)
(*  the archive file and k >= 1 is the k-th heap buffer.  File reads       *)
(*  succeed.                                                               *)
(***************************************************************************)
MaxFiles == 2
MaxLive == 2

DLF_NR_ENTRIES == 300
AAR_COMPRESSED == 0
AAR_RAW == 1
AAR_SYMLINK == -1

MapPtr == -1

\* "a", "A", "b"
Names == { <<97>>, <<65>>, <<98>> }

\* utfsjis.c sjis_normalize_path, from byte i on
RECURSIVE NormalizeFrom(_, _)
NormalizeFrom(t, i) ==
    IF i > Len(t) THEN t
    ELSE IF SJIS_2BYTE(t[i]) THEN NormalizeFrom(t, i + 2)
    ELSE IF 97 <= t[i] /\ t[i] <= 122
         THEN NormalizeFrom([t EXCEPT ![i] = t[i] - 32], i + 1)
    ELSE IF t[i] = 47 THEN NormalizeFrom([t EXCEPT ![i] = 92], i + 1)
    ELSE NormalizeFrom(t, i + 1)

sjis_normalize_path(t) == NormalizeFrom(t, 1)

\* hashtable.h ht_put with a default followed by ht_get: the slot of a key
\* keeps the value of the first insertion; 0 stands for the default NULL
ht_first(keys, key) ==
    IF \E p \in 1..Len(keys) : keys[p] = key
    THEN CHOOSE p \in 1..Len(keys) :
             /\ keys[p] = key
             /\ \A q \in 1..(p - 1) : keys[q] # key
    ELSE 0

\* sprintf("%d", n) for n >= 0
RECURSIVE Decimal(_)
Decimal(n) == IF n < 10 THEN <<48 + n>> ELSE Decimal(n \div 10) \o <<48 + (n % 10)>>

\* sprintf("%02d", n) for n >= 0
Decimal02(n) == IF n < 10 THEN <<48, n + 48>> ELSE Decimal(n)

\* dlf.c extensions[]: ".dgn", ".dtx", ".tes"
extensions == << <<46, 100, 103, 110>>, <<46, 100, 116, 120>>, <<46, 116, 101, 115>> >>

\* ---- the archives of the model --------------------------------------
\* ald.c: map_disk[no], map_ptr[no] of one file-map entry
ALDEntries ==
    { [disk |-> 0, ptr |-> 0], [disk |-> 0, ptr |-> 1], [disk |-> 0, ptr |-> 2],
      [disk |-> -1, ptr |-> 0], [disk |-> 1, ptr |-> 0], [disk |-> 0, ptr |-> -1] }

\* ald.c: fileptr[0][0..3], the pointer map of volume 0; volume 1 is not
\* registered (fileptr[1] == NULL)
fileptr == <<256, 512, 768, 0>>

\* afa.c afa_read_entry: the name and the stored id field of an entry
AFAEntries == [name : Names, stored : 0..MaxFiles]

AAREntries ==
    [name : Names, type : {AAR_RAW}, link : {<<>>}, zlb : {TRUE}]
    \cup [name : Names, type : {AAR_COMPRESSED}, link : {<<>>}, zlb : BOOLEAN]
    \cup [name : Names, type : {AAR_SYMLINK}, link : Names, zlb : {TRUE}]

ALKEntries == [size : {0, 1}]

\* dlf.c: the entries whose offset is not 0
DLFPresent == SUBSET {0, 1, DLF_NR_ENTRIES - 1}

Archives ==
    [backend : {"ald"}, mmapped : BOOLEAN, has_number : {FALSE},
     files : SeqsUpTo(ALDEntries, MaxFiles), hdr : [1..2 -> {<<97>>, <<98>>}],
     present : {{}}]
    \cup [backend : {"afa"}, mmapped : BOOLEAN, has_number : {TRUE},
          files : SeqsUpTo(AFAEntries, MaxFiles), hdr : {<<>>}, present : {{}}]
    \cup [backend : {"afa"}, mmapped : BOOLEAN, has_number : {FALSE},
          files : SeqsUpTo([name : Names, stored : {0}], MaxFiles), hdr : {<<>>},
          present : {{}}]
    \cup [backend : {"aar"}, mmapped : BOOLEAN, has_number : {FALSE},
          files : SeqsUpTo(AAREntries, MaxFiles), hdr : {<<>>}, present : {{}}]
    \cup [backend : {"alk"}, mmapped : BOOLEAN, has_number : {FALSE},
          files : SeqsUpTo(ALKEntries, MaxFiles), hdr : {<<>>}, present : {{}}]
    \cup [backend : {"dlf"}, mmapped : BOOLEAN, has_number : {FALSE},
          files : {<<>>}, hdr : {<<>>}, present : DLFPresent]

\* nr_files / maxfile / DLF_NR_ENTRIES
nr_files(a) == IF a.backend = "dlf" THEN DLF_NR_ENTRIES ELSE Len(a.files)

\* ---- descriptors -------------------------------------------------------
NoDesc == [state |-> "none", no |-> -1, name |-> <<>>, data |-> 0]
MkDesc(no, name) == [state |-> "live", no |-> no, name |-> name, data |-> 0]

\* ald.c _ald_get: the size of file `no`, 0 if there is none
_ald_get(a, no) ==
    IF no < 0 \/ no >= nr_files(a) THEN 0
    ELSE LET disk == a.files[no + 1].disk
             ptr == a.files[no + 1].ptr
         IN  IF disk < 0 \/ ptr < 0 THEN 0
             ELSE IF disk # 0 THEN 0
             ELSE IF fileptr[ptr + 1] = 0 \/ fileptr[ptr + 2] = 0 THEN 0
             ELSE fileptr[ptr + 2] - fileptr[ptr + 1]

ald_get_descriptor(a, no) ==
    IF _ald_get(a, no) = 0 THEN NoDesc
    ELSE MkDesc(no, a.hdr[a.files[no + 1].ptr + 1])

\* afa.c afa_read_file_table / afa_read_entry: the `no` of the entry at
\* table position p (1-based)
afa_entry_no(a, p) ==
    IF a.has_number /\ a.files[p].stored - 1 >= 0
    THEN a.files[p].stored - 1
    ELSE p - 1

\* afa.c afa_get_entry_by_number: table position of the entry, 0 if none
afa_get_entry_by_number(a, no) ==
    IF ~a.has_number
    THEN IF 0 <= no /\ no < nr_files(a) THEN no + 1 ELSE 0
    ELSE ht_first([p \in 1..Len(a.files) |-> afa_entry_no(a, p)], no)

\* afa.c afa_get_entry_by_name
afa_get_entry_by_name(a, name) ==
    ht_first([p \in 1..Len(a.files) |-> a.files[p].name], name)

afa_entry_to_descriptor(a, p) ==
    IF p = 0 THEN NoDesc ELSE MkDesc(afa_entry_no(a, p), a.files[p].name)

aar_get_descriptor(a, no) ==
    IF 0 <= no /\ no < nr_files(a) THEN MkDesc(no, a.files[no + 1].name) ELSE NoDesc

\* ht_get on the index built by aar_read_index, the key not normalized
ht_get_exact(a, key) ==
    ht_first([p \in 1..Len(a.files) |-> sjis_normalize_path(a.files[p].name)], key)

\* aar.c ht_get_ignorecase on the index built by aar_read_index
ht_get_ignorecase(a, key) ==
    ht_first([p \in 1..Len(a.files) |-> sjis_normalize_path(a.files[p].name)],
             sjis_normalize_path(key))

alk_get_descriptor(a, no) ==
    IF no < 0 \/ no >= nr_files(a) THEN NoDesc
    ELSE IF a.files[no + 1].size = 0 THEN NoDesc
    ELSE MkDesc(no, Decimal(no))

dlf_get_descriptor(a, no) ==
    IF ~(0 <= no /\ no < DLF_NR_ENTRIES) THEN NoDesc
    ELSE IF no \notin a.present THEN NoDesc
    ELSE MkDesc(no, <<109, 97, 112>> \o Decimal02(no \div 3) \o extensions[(no % 3) + 1])

\* the descriptor of file `no`, unloaded
get_descriptor(a, no) ==
    CASE a.backend = "ald" -> ald_get_descriptor(a, no)
      [] a.backend = "afa" -> afa_entry_to_descriptor(a, afa_get_entry_by_number(a, no))
      [] a.backend = "aar" -> aar_get_descriptor(a, no)
      [] a.backend = "alk" -> alk_get_descriptor(a, no)
      [] a.backend = "dlf" -> dlf_get_descriptor(a, no)

\* ---- the allocator -----------------------------------------------------
\* malloc: the first heap buffer that is not live
NewBuf(L) == CHOOSE k \in 1..(MaxLive + 1) : k \notin L /\ \A j \in 1..(k - 1) : j \in L

\* free(p): freeing NULL does nothing; anything else that is not a live
\* heap buffer is recorded as a bad free
FreePtr(p, H) ==
    IF p = 0 THEN H
    ELSE IF p = MapPtr THEN [H EXCEPT !.bad = @ \cup {"mapping"}]
    ELSE IF p \in H.live THEN [H EXCEPT !.live = @ \ {p}]
    ELSE [H EXCEPT !.bad = @ \cup {"not_live"}]

\* ---- load_file ---------------------------------------------------------
\* aar.c aar_load_file, the while loop: the table position of the first entry
\* on the link chain of position p that is no symlink; 0 for an orphaned
\* link and -1 when the loop does not end.  A chain that has not ended after
\* nr_files steps has visited an entry twice.
RECURSIVE aar_follow(_, _, _)
aar_follow(a, p, fuel) ==
    IF a.files[p].type # AAR_SYMLINK THEN p
    ELSE IF fuel = 0 THEN -1
    ELSE LET q == ht_get_ignorecase(a, a.files[p].link)
         IN  IF q = 0 THEN 0 ELSE aar_follow(a, q, fuel - 1)

\* the outcome of load_file on descriptor d with heap H:
\* [status, data, heap]; status "hang" is a call that never returns
LoadOk(d, p, H) == [status |-> "ok", data |-> p, heap |-> H]
LoadMalloc(d, H) == LoadOk(d, NewBuf(H.live), [H EXCEPT !.live = @ \cup {NewBuf(H.live)}])
LoadFail(d, H) == [status |-> "fail", data |-> d.data, heap |-> H]

ald_load_file(a, d, H) ==
    IF a.mmapped THEN LoadOk(d, MapPtr, H) ELSE LoadMalloc(d, H)

\* afa.c afa_load_file, alk.c alk_load_file, dlf.c dlf_load_file
guarded_load_file(a, d, H) ==
    IF d.data # 0 THEN LoadOk(d, d.data, H)
    ELSE IF a.mmapped THEN LoadOk(d, MapPtr, H)
    ELSE LoadMalloc(d, H)

aar_load_file(a, d, H) ==
    IF d.data # 0 THEN LoadOk(d, d.data, H)
    ELSE LET p == aar_follow(a, d.no + 1, nr_files(a))
         IN  IF p = -1 THEN [status |-> "hang", data |-> d.data, heap |-> H]
             ELSE IF p = 0 THEN LoadFail(d, H)
             ELSE IF a.files[p].type = AAR_COMPRESSED
                  THEN IF a.files[p].zlb THEN LoadMalloc(d, H) ELSE LoadFail(d, H)
             ELSE IF a.mmapped THEN LoadOk(d, MapPtr, H)
             ELSE LoadMalloc(d, H)

load_file(a, d, H) ==
    CASE a.backend = "ald" -> ald_load_file(a, d, H)
      [] a.backend = "aar" -> aar_load_file(a, d, H)
      [] OTHER -> guarded_load_file(a, d, H)

\* ---- release_file, free_data -------------------------------------------
aar_release_file(a, d, H) ==
    IF d.data = 0 THEN H
    ELSE IF ~(a.mmapped /\ d.data = MapPtr) THEN FreePtr(d.data, H)
    ELSE H

_archive_release_file(a, d, H) ==
    IF ~a.mmapped THEN FreePtr(d.data, H) ELSE H

release_file(a, d, H) ==
    IF a.backend = "aar" THEN aar_release_file(a, d, H)
    ELSE _archive_release_file(a, d, H)

\* ald_free_data, afa_free_data, alk_free_data, dlf_free_data, aar_free_data
free_data(a, d, H) ==
    IF a.backend = "aar" THEN aar_release_file(a, d, H)
    ELSE IF ~a.mmapped /\ d.data # 0 THEN FreePtr(d.data, H)
    ELSE H

\* ---- get, get_by_name --------------------------------------------------
\* the outcome of a lookup: [desc, heap]; a NULL result has desc.state "null"
NullDesc == [NoDesc EXCEPT !.state = "null"]
HungDesc == [NoDesc EXCEPT !.state = "hung"]

\* ald_get, afa_get_by_entry, aar_get, alk_get, dlf_get: load the descriptor
\* d0, free it when the load fails
get_loaded(a, d0, H) ==
    IF d0.state = "none" THEN [desc |-> NullDesc, heap |-> H]
    ELSE LET r == load_file(a, d0, H)
         IN  CASE r.status = "ok" -> [desc |-> [d0 EXCEPT !.data = r.data], heap |-> r.heap]
               [] r.status = "hang" -> [desc |-> HungDesc, heap |-> r.heap]
               [] OTHER -> [desc |-> NullDesc, heap |-> free_data(a, d0, r.heap)]

get(a, no, H) == get_loaded(a, get_descriptor(a, no), H)

\* ---- exists -----------------------------------------------------------
ald_exists(a, no) == _ald_get(a, no) # 0

afa_exists(a, no) == afa_get_entry_by_number(a, no) # 0

\* (uint32_t)no < ar->nr_files
aar_exists(a, no) == 0 <= no /\ no < nr_files(a)

alk_exists(a, no) ==
    IF no < 0 \/ no >= nr_files(a) THEN FALSE ELSE a.files[no + 1].size > 0

\* (uint32_t)no >= DLF_NR_ENTRIES ? false : files[no].off != 0
dlf_exists(a, no) ==
    IF ~(0 <= no /\ no < DLF_NR_ENTRIES) THEN FALSE ELSE no \in a.present

\* archive.h archive_exists
exists(a, no) ==
    CASE a.backend = "ald" -> ald_exists(a, no)
      [] a.backend = "afa" -> afa_exists(a, no)
      [] a.backend = "aar" -> aar_exists(a, no)
      [] a.backend = "alk" -> alk_exists(a, no)
      [] a.backend = "dlf" -> dlf_exists(a, no)

\* ald.c ald_get_by_name: the first file of the map whose header name is `name`
ald_get_by_name(a, name, H) ==
    LET hits == { i \in 0..(nr_files(a) - 1) :
                      /\ ald_get_descriptor(a, i).state = "live"
                      /\ ald_get_descriptor(a, i).name = name }
    IN  IF hits = {} THEN [desc |-> NullDesc, heap |-> H]
        ELSE LET i == CHOOSE i \in hits : \A j \in hits : i <= j
                 d0 == ald_get_descriptor(a, i)
                 r == ald_load_file(a, d0, H)
             IN  [desc |-> [d0 EXCEPT !.data = r.data], heap |-> r.heap]

afa_get_by_name(a, name, H) ==
    get_loaded(a, afa_entry_to_descriptor(a, afa_get_entry_by_name(a, name)), H)

aar_get_by_name_off_by_one(a, name, H) ==
    LET p == ht_get_ignorecase(a, name)
    IN  IF p = 0 THEN [desc |-> NullDesc, heap |-> H] ELSE get(a, p, H)

aar_get_by_name(a, name, H) ==
    LET p == ht_get_ignorecase(a, name)
    IN  IF p = 0 THEN [desc |-> NullDesc, heap |-> H] ELSE get(a, p - 1, H)

\* archive.h archive_get_by_name: NULL when the backend has no get_by_name
get_by_name(a, name, H) ==
    CASE a.backend = "ald" -> ald_get_by_name(a, name, H)
      [] a.backend = "afa" -> afa_get_by_name(a, name, H)
      [] a.backend = "aar" -> aar_get_by_name(a, name, H)
      [] OTHER -> [desc |-> NullDesc, heap |-> H]

for_each_descriptor_reversed(a, i) ==
    IF a.backend = "afa" THEN afa_entry_to_descriptor(a, nr_files(a) - i)
    ELSE get_descriptor(a, nr_files(a) - 1 - i)

\* for_each: the descriptor handed to the visitor for loop index i
for_each_descriptor(a, i) ==
    IF a.backend = "afa" THEN afa_entry_to_descriptor(a, i + 1) ELSE get_descriptor(a, i)

\* ---- the client of one archive -----------------------------------------
EmptyHeap == [live |-> {}, bad |-> {}]
IterIdle == [active |-> FALSE, next |-> 0, seen |-> <<>>]

\* the ids and names a client asks for
Ids(a) ==
    ((-1)..MaxFiles) \cup (IF a.backend = "dlf"
                           THEN {DLF_NR_ENTRIES - 1, DLF_NR_ENTRIES} ELSE {})

\* the descriptor archive_get(id) returns
Got(a, id) == get(a, id, EmptyHeap).desc

Queries(a) == Names \cup { Got(a, id).name : id \in { i \in Ids(a) : Got(a, i).state = "live" } }

\* the client holds no descriptor and no call is in progress
CanCall == desc.state \in {"none", "null"} /\ ~iter.active
CanAlloc == Cardinality(heap.live) < MaxLive

\* d = archive_get(ar, no)
ArchiveGet(no) ==
    /\ CanCall /\ CanAlloc
    /\ LET r == get(ar, no, heap)
       IN  /\ desc' = r.desc
           /\ heap' = r.heap
    /\ acall' = [op |-> "get", arg |-> no]
    /\ UNCHANGED <<ar, iter, notAr>>

\* d = archive_get_by_name(ar, name)
ArchiveGetByName(name) ==
    /\ CanCall /\ CanAlloc
    /\ LET r == get_by_name(ar, name, heap)
       IN  /\ desc' = r.desc
           /\ heap' = r.heap
    /\ acall' = [op |-> "get_by_name", arg |-> name]
    /\ UNCHANGED <<ar, iter, notAr>>

\* archive_load_file(d), by the client or by a for_each visitor
ArchiveLoadFile ==
    /\ desc.state = "live" /\ CanAlloc
    /\ LET r == load_file(ar, desc, heap)
       IN  /\ desc' = IF r.status = "hang" THEN HungDesc ELSE [desc EXCEPT !.data = r.data]
           /\ heap' = r.heap
    /\ UNCHANGED <<ar, iter, acall, notAr>>

\* archive_release_file(d)
ArchiveReleaseFile ==
    /\ desc.state = "live"
    /\ heap' = release_file(ar, desc, heap)
    /\ desc' = [desc EXCEPT !.data = 0]
    /\ UNCHANGED <<ar, iter, acall, notAr>>

\* archive_free_data(d)
ArchiveFreeData ==
    /\ desc.state = "live" /\ ~iter.active
    /\ heap' = free_data(ar, desc, heap)
    /\ desc' = NoDesc
    /\ acall' = [op |-> "free_data", arg |-> 0]
    /\ UNCHANGED <<ar, iter, notAr>>

\* archive_for_each(ar, iter, user) is entered
ArchiveForEach ==
    /\ CanCall
    /\ iter' = [active |-> TRUE, next |-> 0, seen |-> <<>>]
    /\ desc' = NoDesc
    /\ acall' = [op |-> "for_each", arg |-> 0]
    /\ UNCHANGED <<ar, heap, notAr>>

\* one round of the for_each loop: the visitor has returned, its descriptor is
\* freed, and the next descriptor is handed to the visitor; the loop ends
\* when no index is left
ForEachStep ==
    /\ iter.active /\ desc.state # "hung"
    /\ heap' = IF desc.state = "live" THEN free_data(ar, desc, heap) ELSE heap
    /\ LET rest == { i \in iter.next..(nr_files(ar) - 1) :
                         for_each_descriptor(ar, i).state = "live" }
       IN  IF rest = {}
           THEN /\ iter' = IterIdle
                /\ desc' = NoDesc
           ELSE LET i == CHOOSE i \in rest : \A j \in rest : i <= j
                    d == for_each_descriptor(ar, i)
                IN  /\ iter' = [active |-> TRUE, next |-> i + 1,
                                seen |-> Append(iter.seen, [i |-> i, no |-> d.no])]
                    /\ desc' = d
    /\ UNCHANGED <<ar, acall, notAr>>

\* ald_open, afa_open, aar_open, alk_open, dlf_open have returned an archive
ArInit ==
    /\ ar \in Archives
    /\ desc = NoDesc
    /\ heap = EmptyHeap
    /\ iter = IterIdle
    /\ acall = [op |-> "open", arg |-> 0]

ArNext ==
    \/ \E no \in Ids(ar) : ArchiveGet(no)
    \/ \E name \in Queries(ar) : ArchiveGetByName(name)
    \/ ArchiveLoadFile
    \/ ArchiveReleaseFile
    \/ ArchiveFreeData
    \/ ArchiveForEach
    \/ ForEachStep

ArIdle ==
    /\ ar = [backend |-> "none"]
    /\ desc = NoDesc
    /\ heap = EmptyHeap
    /\ iter = IterIdle
    /\ acall = [op |-> "idle"]

(***************************************************************************)
(*  afa.c: the heap objects of afa_get                                     *)
(*                                                                         *)
(*  Every object malloc returns is an element of mem, named by its         *)
(*  position; it records what the object is, whether it is live, and how   *)
(*  often it has been passed to free.  A read of a field of a freed        *)
(*  object is recorded in uaf.  What a program does after it has read      *)
(*  freed memory or freed an object twice is undefined: the allocator      *)
(*  aborts the process (abort), or the stale values are read and the run   *)
(*  goes on.  fread fails or succeeds as the caller of the action says.    *)
(***************************************************************************)
\* the most heap objects of a run
MaxAllocs == 6

\* malloc, calloc, strdup: a new live object of the kind
Malloc(st, kind) == [st EXCEPT !.mem = Append(@, [kind |-> kind, live |-> TRUE, frees |-> 0])]

\* free(p); free(NULL) does nothing
Free(st, p) ==
    IF p = 0 THEN st
    ELSE [st EXCEPT !.mem[p].live = FALSE, !.mem[p].frees = @ + 1]

\* a read of a field of the object p
ReadField(st, p) ==
    IF st.mem[p].live THEN st ELSE [st EXCEPT !.uaf = @ \cup {p}]

\* afa.c afa_entry_to_descriptor: the descriptor record and its name
afa_new_descriptor(st, a, p) ==
    LET st1 == Malloc(st, "descriptor")
        st2 == Malloc(st1, "name")
    IN  [st |-> st2,
         d |-> [rec |-> Len(st1.mem), name |-> Len(st2.mem), data |-> 0,
                no |-> afa_entry_no(a, p)]]

\* afa.c afa_load_file: [ok, st, d]
afa_load_file(st, a, d, readok) ==
    IF d.data # 0 THEN [ok |-> TRUE, st |-> st, d |-> d]
    ELSE IF a.mmapped THEN [ok |-> TRUE, st |-> st, d |-> [d EXCEPT !.data = MapPtr]]
    ELSE LET st1 == Malloc(st, "payload")
             payload == Len(st1.mem)
         IN  IF readok THEN [ok |-> TRUE, st |-> st1, d |-> [d EXCEPT !.data = payload]]
             ELSE [ok |-> FALSE, st |-> Free(Free(st1, payload), d.rec),
                   d |-> [d EXCEPT !.data = payload]]

\* afa.c afa_free_data; the fields data, archive and name of the record are
\* read before the record is freed
afa_free_data(st, a, d, ub) ==
    LET st1 == ReadField(st, d.rec)
    IN  IF st1.uaf # {} /\ ub = "abort" THEN [st1 EXCEPT !.abort = TRUE]
        ELSE LET st2 == IF d.data # 0 /\ ~a.mmapped THEN Free(st1, d.data) ELSE st1
             IN  Free(Free(st2, d.name), d.rec)

\* afa.c afa_get_by_entry on the entry at table position p (0 is NULL):
\* [st, d, null]
afa_get_by_entry(st, a, p, readok, ub) ==
    IF p = 0 THEN [st |-> st, null |-> TRUE, d |-> [rec |-> 0]]
    ELSE LET n == afa_new_descriptor(st, a, p)
             r == afa_load_file(n.st, a, n.d, readok)
         IN  IF ~r.ok
             THEN [st |-> afa_free_data(r.st, a, r.d, ub), null |-> TRUE, d |-> [rec |-> 0]]
             ELSE [st |-> r.st, null |-> FALSE, d |-> r.d]

\* d = archive_get(ar, no) on an AFA archive
AfaGet(no, readok, ub) ==
    /\ aget.op \in {"open", "free_data", "get"}
    /\ aget.d.rec = 0
    /\ ~aget.st.abort
    /\ Len(aget.st.mem) + 3 <= MaxAllocs
    /\ LET r == afa_get_by_entry(aget.st, aget.ar, afa_get_entry_by_number(aget.ar, no),
                                 readok, ub)
       IN  aget' = [aget EXCEPT !.op = "get", !.st = r.st, !.d = r.d,
                                !.first = Len(aget.st.mem) + 1,
                                !.failed = /\ afa_get_entry_by_number(aget.ar, no) # 0
                                           /\ ~aget.ar.mmapped
                                           /\ ~readok]
    /\ UNCHANGED notAfa

\* archive_free_data(d) by the client
AfaFreeData ==
    /\ aget.op = "get"
    /\ aget.d.rec # 0
    /\ aget' = [aget EXCEPT !.op = "free_data",
                            !.st = afa_free_data(aget.st, aget.ar, aget.d, "stale"),
                            !.d = [rec |-> 0]]
    /\ UNCHANGED notAfa

\* afa_open has returned an archive without stored entry numbers
AfaInit ==
    \E files \in SeqsUpTo([name : Names, stored : {0}], MaxFiles), mmapped \in BOOLEAN :
        aget = [op |-> "open",
                ar |-> [backend |-> "afa", mmapped |-> mmapped, has_number |-> FALSE,
                        files |-> files],
                st |-> [mem |-> <<>>, uaf |-> {}, abort |-> FALSE],
                d |-> [rec |-> 0], first |-> 1, failed |-> FALSE]

AfaNext ==
    \/ \E no \in (-1)..MaxFiles, readok \in BOOLEAN, ub \in {"stale", "abort"} :
           AfaGet(no, readok, ub)
    \/ AfaFreeData

AfaIdle == aget = [op |-> "idle"]

(***************************************************************************)
(*  afa3.c: the file table of an AFA version 3 archive                     *)
(*                                                                         *)
(*  rnd and dict are the two objects of static storage of afa3.c.  A       *)
(*  decoder is one call of afa3_read_metadata; its steps are the start of  *)
(*  read_dict, one round of its loop, the unpacking of the table, the      *)
(*  start of afa3_read_encrypted_chars, one round of its loop, and the     *)
(*  rest of afa3_read_entry.  The generator is kept as its seed and its    *)
(*  position: rnd_init sets all 521 words from the seed, and no decoder    *)
(*  of the model draws 521 numbers.  Streams are sequences of bits.  The   *)
(*  deflate stream of the table is one byte, and uncompress accepts the    *)
(*  stream of the archive it belongs to and nothing else.                  *)
(***************************************************************************)
\* the longest dictionary and the longest name, in bytes
MaxDict == 2
MaxName == 1

\* dictionary bytes: 'a' ^ 0xa4 and 'b' ^ 0xa4
DictBytes == {197, 198}

\* what malloc can leave in a fresh dictionary
UninitBytes == {0, 197}

\* rnd_get_next() & 3 of the first twelve numbers after rnd_init(seed), for
\* the seeds 0 to 3
RndLow ==
    << <<3, 2, 2, 1, 1, 2, 3, 1, 0, 3, 2, 0>>,
       <<2, 2, 0, 3, 1, 2, 2, 3, 1, 1, 0, 2>>,
       <<2, 3, 3, 1, 0, 1, 2, 1, 2, 1, 3, 2>>,
       <<0, 2, 2, 3, 0, 3, 2, 1, 3, 1, 3, 1>> >>

rnd_init(seed) == [seed |-> seed, current |-> -1]

\* rnd_get_next: the generator after the call and the low two bits of the
\* number
rnd_get_next(r) ==
    [rnd |-> [r EXCEPT !.current = @ + 1], low |-> RndLow[r.seed + 1][r.current + 2]]

\* the value of the bits b[from + 1 .. from + count], the first bit highest
RECURSIVE BitsValue(_, _, _)
BitsValue(b, from, count) ==
    IF count = 0 THEN 0 ELSE 2 * BitsValue(b, from, count - 1) + b[from + count]

\* bs_read_bits: -1 at the end of the stream
bs_read_bits(bs, count) ==
    IF bs.pos + count > Len(bs.bits) THEN [v |-> -1, bs |-> bs]
    ELSE [v |-> BitsValue(bs.bits, bs.pos, count), bs |-> [bs EXCEPT !.pos = @ + count]]

\* bs_read_int32: (b3 << 24) | (b2 << 16) | (b1 << 8) | b0 as an int
bs_read_int32(bs) ==
    LET r0 == bs_read_bits(bs, 8)
        r1 == bs_read_bits(r0.bs, 8)
        r2 == bs_read_bits(r1.bs, 8)
        r3 == bs_read_bits(r2.bs, 8)
        v == IF r0.v = -1 THEN -1
             ELSE IF r1.v = -1 THEN r0.v - 256
             ELSE IF r2.v = -1 THEN r0.v + 256 * r1.v - 65536
             ELSE IF r3.v = -1 THEN r0.v + 256 * r1.v + 65536 * r2.v - 16777216
             ELSE r0.v + 256 * r1.v + 65536 * r2.v
                  + 16777216 * (IF r3.v >= 128 THEN r3.v - 256 ELSE r3.v)
    IN  [v |-> v, bs |-> r3.bs]

\* a ^ b of two bytes
RECURSIVE BitXor(_, _, _)
BitXor(a, b, n) ==
    IF n = 0 THEN 0
    ELSE 2 * BitXor(a \div 2, b \div 2, n - 1) + ((a + b) % 2)

\* strlen: the bytes before the first 0
CString(s) ==
    IF \E k \in 1..Len(s) : s[k] = 0
    THEN SubSeq(s, 1, (CHOOSE k \in 1..Len(s) : s[k] = 0 /\ \A j \in 1..(k - 1) : s[j] # 0) - 1)
    ELSE s

\* ---- the archives of the model -----------------------------------------
\* n as w bits, the first bit highest
Bits(n, w) == [k \in 1..w |-> (n \div (2 ^ (w - k))) % 2]

Int32LE(n) == Bits(n % 256, 8) \o Bits((n \div 256) % 256, 8) \o Bits(0, 8) \o Bits(0, 8)

\* the bits skipped before item dst of a sequence written with seed
Skipped(seed, dst) == [k \in 1..(RndLow[seed + 1][2 * dst + 1] + 1) |-> 1]

\* the items of a dictionary or of a name from item dst on; w is the width
\* of an item
RECURSIVE Items(_, _, _)
Items(s, dst, w) ==
    IF dst >= Len(s) THEN <<>>
    ELSE Skipped(Len(s), dst) \o Bits(s[dst + 1] % 256, 8)
         \o (IF w = 16 THEN Bits(s[dst + 1] \div 256, 8) ELSE <<>>)
         \o Items(s, dst + 1, w)

\* a sequence of bits filled up to whole bytes
Padded(b) == b \o [k \in 1..((8 - (Len(b) % 8)) % 8) |-> 0]

\* the table of an archive with the names `names` (one entry for each)
RECURSIVE TableEntries(_, _)
TableEntries(names, i) ==
    IF i > Len(names) THEN <<>>
    ELSE <<0, 0>> \o Int32LE(Len(names[i])) \o Items(names[i], 0, 16)
         \o Int32LE(0) \o Int32LE(0) \o Int32LE(16 * i) \o Int32LE(16)
         \o TableEntries(names, i + 1)

TableBits(f) == Padded(<<0>> \o Int32LE(Len(f.names)) \o TableEntries(f.names, 1))

\* the deflate stream of the table
Packed == <<120>>

\* the archive file from byte 12 on
FileBits(f) ==
    Padded(<<0>> \o Int32LE(Len(f.dict)) \o Items(f.dict, 0, 8)
           \o Int32LE(Len(Packed)) \o Int32LE(Len(TableBits(f)) \div 8) \o Bits(Packed[1], 8))

\* archives with a dictionary of d bytes and at most one entry, whose name
\* is a sequence of positions of the dictionary
Afa3Files(d) ==
    { [dict |-> bytes, names |-> names] :
          bytes \in [1..d -> DictBytes],
          names \in {<<>>} \cup { <<name>> : name \in UNION { [1..n -> 0..(d - 1)] : n \in 1..MaxName } } }

\* ---- the steps of a decoder --------------------------------------------
\* afa3_read_metadata up to the loop of read_dict; fill is what malloc
\* leaves in the dictionary
read_dict_open(sh, loc, fill) ==
    LET r1 == bs_read_bits([bits |-> FileBits(loc.file), pos |-> 0], 1)
        r2 == bs_read_int32(r1.bs)
    IN  [sh |-> [rnd |-> rnd_init(r2.v),
                 dict |-> [size |-> r2.v, bytes |-> [k \in 1..r2.v |-> fill], freed |-> FALSE]],
         loc |-> [loc EXCEPT !.pc = "dict", !.bs = r2.bs, !.dst = 0]]

\* one round of the loop of read_dict; at the end of the stream the
\* dictionary is freed and read_dict returns
read_dict_round(sh, loc) ==
    LET g1 == rnd_get_next(sh.rnd)
        skipped == bs_read_bits(loc.bs, g1.low + 1)
        g2 == rnd_get_next(g1.rnd)
        v == bs_read_bits(skipped.bs, 8)
    IN  IF skipped.v = -1
        THEN [sh |-> [sh EXCEPT !.rnd = g1.rnd, !.dict.freed = TRUE],
              loc |-> [loc EXCEPT !.pc = "unpack"]]
        ELSE IF v.v = -1
        THEN [sh |-> [sh EXCEPT !.rnd = g2.rnd, !.dict.freed = TRUE],
              loc |-> [loc EXCEPT !.pc = "unpack", !.bs = skipped.bs]]
        ELSE [sh |-> [sh EXCEPT !.rnd = g2.rnd, !.dict.bytes[loc.dst + 1] = v.v],
              loc |-> [loc EXCEPT !.bs = v.bs, !.dst = @ + 1]]

\* afa3_read_metadata from the end of read_dict to the loop over the entries
afa3_unpack(sh, loc) ==
    LET packed_size == bs_read_int32(loc.bs)
        unpacked_size == bs_read_int32(packed_size.bs)
        packed == bs_read_bits(unpacked_size.bs, 8)
        t1 == bs_read_bits([bits |-> TableBits(loc.file), pos |-> 0], 1)
        nr == bs_read_int32(t1.bs)
    IN  IF \/ packed_size.v # Len(Packed)
           \/ packed.v # Packed[1]
           \/ unpacked_size.v < Len(TableBits(loc.file)) \div 8
        THEN [sh |-> sh, loc |-> [loc EXCEPT !.pc = "done", !.error = TRUE]]
        ELSE [sh |-> sh,
              loc |-> [loc EXCEPT !.pc = "entry", !.bs = nr.bs,
                                  !.nr_files = nr.v, !.i = 0]]

\* the loop over the entries up to the loop of afa3_read_encrypted_chars
afa3_entry_open(sh, loc) ==
    LET t == bs_read_bits(loc.bs, 2)
        buf_size == bs_read_int32(t.bs)
    IN  IF loc.i >= loc.nr_files \/ t.v = -1
        THEN [sh |-> sh, loc |-> [loc EXCEPT !.pc = "done"]]
        ELSE [sh |-> [sh EXCEPT !.rnd = rnd_init(buf_size.v)],
              loc |-> [loc EXCEPT !.pc = "chars", !.bs = buf_size.bs,
                                  !.buf_size = buf_size.v, !.dst = 0, !.chars = <<>>]]

\* one round of the loop of afa3_read_encrypted_chars
afa3_chars_round(sh, loc) ==
    LET g1 == rnd_get_next(sh.rnd)
        skipped == bs_read_bits(loc.bs, g1.low + 1)
        g2 == rnd_get_next(g1.rnd)
        lo == bs_read_bits(skipped.bs, 8)
        hi == bs_read_bits(lo.bs, 8)
    IN  IF skipped.v = -1
        THEN [sh |-> [sh EXCEPT !.rnd = g1.rnd],
              loc |-> [loc EXCEPT !.pc = "done", !.error = TRUE]]
        ELSE IF lo.v = -1 \/ hi.v = -1
        THEN [sh |-> [sh EXCEPT !.rnd = g2.rnd],
              loc |-> [loc EXCEPT !.pc = "done", !.error = TRUE]]
        ELSE [sh |-> [sh EXCEPT !.rnd = g2.rnd],
              loc |-> [loc EXCEPT !.bs = hi.bs, !.dst = @ + 1,
                                  !.chars = Append(@, lo.v + 256 * hi.v)]]

\* afa3_decrypt_string: <<>> with error for NULL; a decoder that reads a
\* freed dictionary is not followed further
afa3_decrypt_string(d, chars) ==
    IF d.freed \/ \E k \in 1..Len(chars) : chars[k] >= d.size
    THEN [error |-> TRUE, name |-> <<>>]
    ELSE [error |-> FALSE,
          name |-> [k \in 1..Len(chars) |-> BitXor(d.bytes[chars[k] + 1], 164, 8)]]

\* afa3_read_entry after afa3_read_encrypted_chars, and files[i].no = i;
\* conv is the caller's function, and the entry keeps the bytes it is given
afa3_entry_close(sh, loc) ==
    LET name == afa3_decrypt_string(sh.dict, loc.chars)
        unknown0 == bs_read_int32(loc.bs)
        unknown1 == bs_read_int32(unknown0.bs)
        off == bs_read_int32(unknown1.bs)
        size == bs_read_int32(off.bs)
    IN  IF name.error
        THEN [sh |-> sh, loc |-> [loc EXCEPT !.pc = "done", !.error = TRUE]]
        ELSE [sh |-> sh,
              loc |-> [loc EXCEPT !.pc = "entry", !.bs = size.bs, !.i = @ + 1,
                                  !.entries = Append(@, [name |-> CString(name.name),
                                                         unknown0 |-> unknown0.v,
                                                         unknown1 |-> unknown1.v,
                                                         off |-> off.v, size |-> size.v,
                                                         no |-> loc.i])]]

\* the next step of the decoder loc
afa3_step(sh, loc, fill) ==
    CASE loc.pc = "open" -> read_dict_open(sh, loc, fill)
      [] loc.pc = "dict" -> IF loc.dst < sh.dict.size THEN read_dict_round(sh, loc)
                            ELSE afa3_unpack(sh, loc)
      [] loc.pc = "unpack" -> afa3_unpack(sh, loc)
      [] loc.pc = "entry" -> afa3_entry_open(sh, loc)
      [] loc.pc = "chars" -> IF loc.dst < loc.buf_size THEN afa3_chars_round(sh, loc)
                             ELSE afa3_entry_close(sh, loc)

\* a decoder before its first step
Decoder(f) ==
    [pc |-> "open", file |-> f, bs |-> [bits |-> <<>>, pos |-> 0], dst |-> 0, nr_files |-> 0,
     i |-> 0, buf_size |-> 0, chars |-> <<>>, entries |-> <<>>, error |-> FALSE]

\* static storage before the first call
NoShared == [rnd |-> [seed |-> 0, current |-> 0], dict |-> [size |-> 0, bytes |-> <<>>, freed |-> FALSE]]

\* one step of decoder p
Afa3Step(p) ==
    /\ p \in DOMAIN decoders
    /\ decoders[p].pc # "done"
    /\ \E fill \in (IF decoders[p].pc = "open" THEN UninitBytes ELSE {0}) :
           LET r == afa3_step([rnd |-> rnd, dict |-> dict], decoders[p], fill)
           IN  /\ rnd' = r.sh.rnd
               /\ dict' = r.sh.dict
               /\ decoders' = [decoders EXCEPT ![p] = r.loc]
    /\ UNCHANGED notAfa3

\* two archives are opened at the same time
Afa3Init ==
    /\ rnd = NoShared.rnd
    /\ dict = NoShared.dict
    /\ \E d1 \in 1..MaxDict, d2 \in 1..MaxDict :
           \E f1 \in Afa3Files(d1), f2 \in Afa3Files(d2) :
               decoders = <<Decoder(f1), Decoder(f2)>>

Afa3Next == \E p \in 1..2 : Afa3Step(p)

Afa3Idle ==
    /\ rnd = NoShared.rnd
    /\ dict = NoShared.dict
    /\ decoders = <<>>

(***************************************************************************)
(*  aar.c: aar_load_file step by step                                      *)
(*                                                                         *)
(*  One call of aar_load_file on the descriptor of entry `no`, whose data  *)
(*  is NULL: the steps are the rounds of the while loop over the link      *)
(*  chain and the read of the payload.  The payload of an entry is named   *)
(*  by the table position of the entry whose off and size are read.        *)
(***************************************************************************)
\* the most entries of an archive of the link-chain model
MaxEntries == 3

\* entry names "a", "b", "c" and link targets "A", "b", "c"
EntryNames == { <<97>>, <<98>>, <<99>> }
LinkTargets == { <<65>>, <<98>>, <<99>> }

\* aar.c aar_read_index: the entries of the index; zlb tells whether the
\* payload of a compressed entry inflates
ChainEntries ==
    [name : EntryNames, type : {AAR_RAW}, link : {<<>>}, zlb : {TRUE}]
    \cup [name : EntryNames, type : {AAR_COMPRESSED}, link : {<<>>}, zlb : BOOLEAN]
    \cup [name : EntryNames, type : {AAR_SYMLINK}, link : LinkTargets, zlb : {TRUE}]

\* aar_load_file(data) is entered with data->data == NULL: e = &ar->files[data->no]
AarLoadFile(no) ==
    /\ aload.pc = "none"
    /\ aload' = [pc |-> "while", no |-> no, e |-> no + 1, ok |-> FALSE, data |-> 0]
    /\ UNCHANGED aar
    /\ UNCHANGED notAar

\* one round of `while (e->type == AAR_SYMLINK)`
AarWhile ==
    /\ aload.pc = "while"
    /\ aar.files[aload.e].type = AAR_SYMLINK
    /\ LET e == ht_get_ignorecase(aar, aar.files[aload.e].link)
       IN  aload' = IF e = 0 THEN [aload EXCEPT !.pc = "return", !.ok = FALSE]
                    ELSE [aload EXCEPT !.e = e]
    /\ UNCHANGED aar
    /\ UNCHANGED notAar

\* the loop has ended: the payload of e is mapped or read, and inflated when
\* e is compressed
AarRead ==
    /\ aload.pc = "while"
    /\ aar.files[aload.e].type # AAR_SYMLINK
    /\ aload' = IF aar.files[aload.e].type = AAR_COMPRESSED /\ ~aar.files[aload.e].zlb
                THEN [aload EXCEPT !.pc = "return", !.ok = FALSE]
                ELSE [aload EXCEPT !.pc = "return", !.ok = TRUE, !.data = aload.e]
    /\ UNCHANGED aar
    /\ UNCHANGED notAar

\* aar_open has returned an archive
AarInit ==
    /\ \E files \in SeqsUpTo(ChainEntries, MaxEntries) : aar = [files |-> files]
    /\ aload = [pc |-> "none"]

AarNext ==
    \/ \E no \in 0..(Len(aar.files) - 1) : AarLoadFile(no)
    \/ AarWhile
    \/ AarRead

AarIdle ==
    /\ aar = [files |-> <<>>]
    /\ aload = [pc |-> "idle"]

(***************************************************************************)
(*  dasm.c: the disassembler cursor                                        *)
(*                                                                         *)
(*  The code section is unfolded while the cursor steps through it:        *)
(*  dasm_next chooses the instruction that follows, so that the steps of   *)
(*  the model are the steps through every code section.  The cursor is     *)
(*  placed by dasm_open (dasm_jump to address 0) and moved by dasm_next.   *)
(***************************************************************************)
DASM_FUNC_STACK_SIZE == 16

\* the deepest nesting of FUNC instructions in the code sections of the model
MaxDepth == 17

\* the operand of a FUNC instruction
FuncIds == {1, 2}

\* instructions.c: the instructions the cursor can stand on; PUSH is
\* instructions[0] and stands for every opcode but FUNC and ENDFUNC
Instrs ==
    { [opcode |-> "PUSH", arg |-> 0], [opcode |-> "ENDFUNC", arg |-> 0] }
    \cup { [opcode |-> "FUNC", arg |-> f] : f \in FuncIds }

\* dasm_open: xcalloc
dasm_zero ==
    [func |-> 0, func_stack |-> [i \in 1..DASM_FUNC_STACK_SIZE |-> 0],
     instr |-> [opcode |-> "PUSH", arg |-> 0], eof |-> FALSE]

dasm_enter_function(d, fno) ==
    [d EXCEPT !.func_stack = [i \in 1..DASM_FUNC_STACK_SIZE |->
                                 IF i = 1 THEN d.func ELSE d.func_stack[i - 1]],
              !.func = fno]

dasm_leave_function_keep(d) ==
    [d EXCEPT !.func_stack = [i \in 1..DASM_FUNC_STACK_SIZE |->
                                 IF i < DASM_FUNC_STACK_SIZE THEN d.func_stack[i + 1]
                                 ELSE d.func_stack[i]]]

dasm_leave_function(d) ==
    [d EXCEPT !.func = d.func_stack[1],
              !.func_stack = [i \in 1..DASM_FUNC_STACK_SIZE |->
                                 IF i < DASM_FUNC_STACK_SIZE THEN d.func_stack[i + 1]
                                 ELSE d.func_stack[i]]]

\* dasm_update with the cursor at the code end (eof) or on instruction ins
dasm_update(d, eof, ins) ==
    LET instr == IF eof THEN [opcode |-> "PUSH", arg |-> 0] ELSE ins
        d1 == [d EXCEPT !.instr = instr, !.eof = eof]
    IN  CASE instr.opcode = "FUNC" -> dasm_enter_function(d1, instr.arg)
          [] instr.opcode = "ENDFUNC" -> dasm_leave_function(d1)
          [] OTHER -> d1

\* the functions whose FUNC has been passed and whose ENDFUNC has not, and
\* whether the code nested deeper than the stack or closed a function that
\* was not open
Track(t, eof, ins) ==
    IF eof THEN t
    ELSE CASE ins.opcode = "FUNC" ->
                  [open |-> Append(t.open, ins.arg),
                   lost |-> t.lost \/ Len(t.open) + 1 > DASM_FUNC_STACK_SIZE]
           [] ins.opcode = "ENDFUNC" ->
                  IF t.open = <<>> THEN [t EXCEPT !.lost = TRUE]
                  ELSE [t EXCEPT !.open = SubSeq(t.open, 1, Len(t.open) - 1)]
           [] OTHER -> t

\* what the cursor can find in the code of the model: the code end or an
\* instruction, a FUNC only while the nesting is below MaxDepth; the code
\* ends after the first instruction that nests deeper than the stack or
\* closes a function that is not open
AtCursor(t) ==
    { [eof |-> TRUE, ins |-> [opcode |-> "PUSH", arg |-> 0]] }
    \cup { [eof |-> FALSE, ins |-> ins] :
              ins \in { i \in Instrs :
                            /\ ~t.lost
                            /\ i.opcode = "FUNC" => Len(t.open) < MaxDepth } }

\* dasm_open: dasm_init, dasm_jump(dasm, 0)
DasmInit ==
    \E c \in AtCursor([open |-> <<>>, lost |-> FALSE]) :
        /\ dasm = dasm_update(dasm_zero, c.eof, c.ins)
        /\ dtrack = Track([open |-> <<>>, lost |-> FALSE], c.eof, c.ins)
        /\ dcode = [op |-> "idle"]

\* dasm_next in the loop `for (...; !dasm_eof(dasm); dasm_next(dasm))`
dasm_next ==
    /\ ~dasm.eof
    /\ \E c \in AtCursor(dtrack) :
           /\ dasm' = dasm_update(dasm, c.eof, c.ins)
           /\ dtrack' = Track(dtrack, c.eof, c.ins)
    /\ UNCHANGED dcode
    /\ UNCHANGED notDasm

\* dasm_function
dasm_function == dasm.func

DasmNext == dasm_next

DasmIdle ==
    /\ dasm = [eof |-> TRUE]
    /\ dtrack = [open |-> <<>>, lost |-> FALSE]
    /\ dcode = [op |-> "idle"]

(***************************************************************************)
(*  dasm.c: the cursor on the words of a code section                      *)
(*                                                                         *)
(*  The code section is a sequence of 16-bit words.  A word is the bits    *)
(*  selected by OPTYPE_MASK (optype) and the remaining bits (opcode), the  *)
(*  latter an index of instructions[] or a value that is NR_OPCODES or     *)
(*  more.  The cursor starts at address 0 and moves by dasm_next, so it    *)
(*  stands on even addresses; the operand words of an instruction are      *)
(*  words like any other.                                                  *)
(***************************************************************************)
\* the longest code section, in words
MaxCode == 4

\* the opcodes of the code sections; "NR_OPCODES" is every value that is not
\* below NR_OPCODES
CodeWords == [optype : {0, 1}, opcode : {"PUSH", "POP", "ENDFUNC", "NR_OPCODES"}]

\* instructions.c instructions[]: nr_args of PUSH, POP and ENDFUNC
nr_args(opcode) == IF opcode = "POP" THEN 0 ELSE 1

\* the width of an instruction in bytes (ip_inc of the OP macro)
instruction_width(opcode) == 2 + nr_args(opcode) * 4

\* ain->code_size
code_size(code) == 2 * Len(code)

\* LittleEndian_getW at an even address
LittleEndian_getW(code, addr) == code[(addr \div 2) + 1]

\* dasm_eof
dasm_eof(code, addr) == addr >= code_size(code)

\* dasm_get_instruction: the word without its OPTYPE_MASK bits selects the
\* entry, instructions[0] when it is not below NR_OPCODES
dasm_get_instruction(code, addr) ==
    LET opcode == LittleEndian_getW(code, addr).opcode
    IN  IF opcode # "NR_OPCODES" THEN [opcode |-> opcode, arg |-> 0]
        ELSE [opcode |-> "PUSH", arg |-> 0]

\* the cursor after dasm_update at addr
dasm_update_at(code, addr, d) ==
    IF dasm_eof(code, addr) THEN dasm_update(d, TRUE, [opcode |-> "PUSH", arg |-> 0])
    ELSE dasm_update(d, FALSE, dasm_get_instruction(code, addr))

\* dasm_peek: none is the result -1, word the word returned otherwise
dasm_peek(code, addr, instr) ==
    LET width == instruction_width(instr.opcode)
    IN  IF addr + width >= code_size(code)
        THEN [called |-> TRUE, none |-> TRUE, word |-> [optype |-> 0, opcode |-> "PUSH"]]
        ELSE [called |-> TRUE, none |-> FALSE, word |-> LittleEndian_getW(code, addr + width)]

NoPeek == [called |-> FALSE, none |-> TRUE, word |-> [optype |-> 0, opcode |-> "PUSH"]]

\* dasm_open on a code section: dasm_init, dasm_jump(dasm, 0)
DasmOpen(code) ==
    dcode = [op |-> "open", code |-> code, addr |-> 0,
             d |-> dasm_update_at(code, 0, dasm_zero), peek |-> NoPeek]

\* dasm_peek, called once on an instruction
DasmPeek ==
    /\ dcode.op \in {"open", "next"}
    /\ ~dcode.d.eof
    /\ dcode' = [dcode EXCEPT !.op = "peek",
                              !.peek = dasm_peek(dcode.code, dcode.addr, dcode.d.instr)]
    /\ UNCHANGED <<dasm, dtrack>>
    /\ UNCHANGED notDasm

\* dasm_next in the loop `for (...; !dasm_eof(dasm); dasm_next(dasm))`; peek
\* keeps the result of a dasm_peek on the instruction that is left
DasmStep ==
    /\ dcode.op \in {"open", "peek", "next"}
    /\ ~dcode.d.eof
    /\ LET addr == dcode.addr + instruction_width(dcode.d.instr.opcode)
       IN  dcode' = [dcode EXCEPT !.op = "next",
                                  !.addr = addr,
                                  !.d = dasm_update_at(dcode.code, addr, dcode.d),
                                  !.peek = IF dcode.op = "peek" THEN @ ELSE NoPeek]
    /\ UNCHANGED <<dasm, dtrack>>
    /\ UNCHANGED notDasm

\* dasm_opcode
dasm_opcode == dcode.d.instr.opcode

DasmCodeInit ==
    /\ dasm = [eof |-> TRUE]
    /\ dtrack = [open |-> <<>>, lost |-> FALSE]
    /\ \E code \in SeqsUpTo(CodeWords, MaxCode) : DasmOpen(code)

DasmCodeNext == DasmPeek \/ DasmStep

(***************************************************************************)
(*  ain.c, instructions.c: ain objects and the instruction table           *)
(*                                                                         *)
(*  The instruction table is one static array of the process; ain objects  *)
(*  come from ain_open (parsing) or ain_new and are changed by the builder *)
(*  calls.  The model keeps the ain object opened or created last.  Names  *)
(*  are byte strings.                                                      *)
(***************************************************************************)
MaxStructs == 2
MaxFuncs == 2
MaxGlobals == 2

\* ain versions below, at and above the version that changes the table
Versions == {6, 11, 12}

\* "S", "T"
StructNames == { <<83>>, <<84>> }
\* "f", "S@f", "T@f", "E@f", "f#1"
FuncNames == { <<102>>, <<83, 64, 102>>, <<84, 64, 102>>, <<69, 64, 102>>, <<102, 35, 49>> }

\* the STRT, ENUM and FUNC sections of the ain files of the model
ParsedStructs == { <<>>, << <<83>> >>, << <<84>>, <<83>> >> }
ParsedEnums == { <<>>, << <<69>> >>, << <<84>>, <<69>> >> }
ParsedFuncs == { <<>>, << <<83, 64, 102>> >>, << <<102>>, <<69, 64, 102>> >> }

\* the GLOB and GSET sections of the ain files of the model: the number of
\* globals and the records (global_index, int_value) of the GSET section,
\* which hold the 32-bit words of the file
ParsedGlobals ==
    { [nr_globals |-> 0, initvals |-> <<>>],
      [nr_globals |-> MaxGlobals, initvals |-> <<>>],
      [nr_globals |-> MaxGlobals,
       initvals |-> << [global_index |-> MaxGlobals - 1, int_value |-> 7],
                       [global_index |-> 0, int_value |-> 8] >>],
      [nr_globals |-> MaxGlobals,
       initvals |-> << [global_index |-> 0, int_value |-> 7],
                       [global_index |-> MaxGlobals, int_value |-> 8] >>],
      [nr_globals |-> 0, initvals |-> << [global_index |-> 0, int_value |-> 7] >>],
      [nr_globals |-> 1, initvals |-> << [global_index |-> -1, int_value |-> 7] >>] }

\* the ain files of the model: files with a GLOB or GSET section and no
\* other symbols, and files without globals and at most two symbols
ParsedFiles ==
    { f \in [structs : ParsedStructs, enums : ParsedEnums, funcs : ParsedFuncs,
             globs : ParsedGlobals] :
        IF f.globs.nr_globals = 0 /\ f.globs.initvals = <<>>
        THEN Len(f.structs) + Len(f.enums) + Len(f.funcs) <= 2
        ELSE f.structs = <<>> /\ f.enums = <<>> /\ f.funcs = <<>> }

\* instructions.c instructions[]: the entries of the static initialiser that
\* depend on the ain version (OP_NEW is the entry of opcode NEW)
instructions0 ==
    [CALLHLL |-> 2, OP_NEW |-> 0, S_MOD |-> 0, OBJSWAP |-> 0, DG_STR_TO_METHOD |-> 0,
     CALLMETHOD |-> "T_FUNC"]

\* instructions.c initialize_instructions
initialize_instructions(tab, version) ==
    IF version >= 11
    THEN [tab EXCEPT !.OP_NEW = 2, !.CALLHLL = 3, !.S_MOD = 1, !.OBJSWAP = 1,
                     !.DG_STR_TO_METHOD = 1, !.CALLMETHOD = "T_INT"]
    ELSE [tab EXCEPT !.OP_NEW = 0, !.CALLHLL = 2, !.S_MOD = 0, !.OBJSWAP = 0,
                     !.DG_STR_TO_METHOD = 0, !.CALLMETHOD = "T_FUNC"]

\* ain.h AIN_VERSION_GTE with minor_version 0
AIN_VERSION_GTE(version, major) == version > major \/ version = major

\* ain.c read_tag, section VERS: the table after the version has been read
read_tag_VERS(tab, version) ==
    IF AIN_VERSION_GTE(version, 11)
    THEN [tab EXCEPT !.CALLHLL = 3, !.OP_NEW = 2, !.S_MOD = 1, !.OBJSWAP = 1,
                     !.DG_STR_TO_METHOD = 1, !.CALLMETHOD = "T_INT"]
    ELSE tab

\* strchr(name, '@'): the index of the first '@', 0 if there is none
strchr_at(name) ==
    IF \E i \in 1..Len(name) : name[i] = 64
    THEN CHOOSE i \in 1..Len(name) : name[i] = 64 /\ \A j \in 1..(i - 1) : name[j] # 64
    ELSE 0

\* the bytes of name before the first '@'
PrefixOf(name) == SubSeq(name, 1, strchr_at(name) - 1)

\* ain.c function_is_member_of, from byte i on
RECURSIVE member_walk(_, _, _)
member_walk(fn, sn, i) ==
    IF i <= Len(fn) /\ i <= Len(sn) /\ fn[i] # 64 /\ fn[i] = sn[i]
    THEN member_walk(fn, sn, i + 1)
    ELSE i > Len(sn) /\ i <= Len(fn) /\ fn[i] = 64

function_is_member_of(fn, sn) == member_walk(fn, sn, 1)

\* the lowest and highest 0-based index at which a sequence of booleans is
\* TRUE, -1 if there is none
FirstIndex(hit) ==
    IF \E i \in 1..Len(hit) : hit[i]
    THEN (CHOOSE i \in 1..Len(hit) : hit[i] /\ \A j \in 1..(i - 1) : ~hit[j]) - 1
    ELSE -1

LastIndex(hit) ==
    IF \E i \in 1..Len(hit) : hit[i]
    THEN (CHOOSE i \in 1..Len(hit) : hit[i] /\ \A j \in (i + 1)..Len(hit) : ~hit[j]) - 1
    ELSE -1

\* ain.c ain_get_struct: struct_ht_add stores the index of the structure
\* added last under a name
ain_get_struct(a, name) ==
    LastIndex([i \in 1..Len(a.structures) |-> a.structures[i] = name])

\* ain.c function_init_struct_type: the function record for `name`
function_init_struct_type(a, name) ==
    IF strchr_at(name) = 0
    THEN [name |-> name, struct_type |-> -1, enum_type |-> -1]
    ELSE LET struct_name == PrefixOf(name)
             struct_no == ain_get_struct(a, struct_name)
         IN  IF struct_no >= 0
             THEN [name |-> name, struct_type |-> struct_no, enum_type |-> -1]
             ELSE [name |-> name, struct_type |-> -1,
                   enum_type |-> FirstIndex([i \in 1..Len(a.enums) |->
                                                a.enums[i] = struct_name])]

\* ain.c ain_init_member_functions, the body of the loop over the functions
init_member_function(a, f) ==
    IF strchr_at(f.name) = 0
    THEN [f EXCEPT !.struct_type = -1, !.enum_type = -1]
    ELSE LET s == FirstIndex([i \in 1..Len(a.structures) |->
                                 function_is_member_of(f.name, a.structures[i])])
             e == FirstIndex([i \in 1..Len(a.enums) |->
                                 function_is_member_of(f.name, a.enums[i])])
         IN  IF s # -1
             THEN [f EXCEPT !.struct_type = s, !.enum_type = -1]
             ELSE [f EXCEPT !.struct_type = -1, !.enum_type = e]

\* ain.c read_functions: calloc leaves struct_type and enum_type 0
read_functions(names) ==
    [i \in 1..Len(names) |-> [name |-> names[i], struct_type |-> 0, enum_type |-> 0]]

\* ---- the function name index (_func_ht) ------------------------------
\* The hash table maps a name to its struct func_list, here the sequence
\* slots[0..nr_slots-1].
EmptyHt == [k \in {} |-> <<>>]

\* ain.c func_ht_add, with key the name of functions[i]
func_ht_add_front(ht, key, i) ==
    IF key \in DOMAIN ht
    THEN [k \in DOMAIN ht |-> IF k = key THEN <<i>> \o ht[k] ELSE ht[k]]
    ELSE [k \in DOMAIN ht \cup {key} |-> IF k = key THEN <<i>> ELSE ht[k]]

func_ht_add(ht, key, i) ==
    IF key \in DOMAIN ht
    THEN [k \in DOMAIN ht |-> IF k = key THEN Append(ht[k], i) ELSE ht[k]]
    ELSE [k \in DOMAIN ht \cup {key} |-> IF k = key THEN <<i>> ELSE ht[k]]

\* ain.c ain_index_functions: a new table filled from functions[0..n-1]
RECURSIVE index_functions_upto(_, _)
index_functions_upto(functions, n) ==
    IF n = 0 THEN EmptyHt
    ELSE func_ht_add(index_functions_upto(functions, n - 1), functions[n].name, n - 1)

ain_index_functions(functions) == index_functions_upto(functions, Len(functions))

\* isspace and isdigit of the C locale
IsSpace(b) == b = 32 \/ b \in 9..13
IsDigit(b) == b \in 48..57

\* the length of the longest prefix of s from index i on whose bytes are
\* all whitespace (ws = TRUE) or all digits (ws = FALSE)
RECURSIVE RunLength(_, _, _)
RunLength(s, i, ws) ==
    IF i <= Len(s) /\ (IF ws THEN IsSpace(s[i]) ELSE IsDigit(s[i]))
    THEN 1 + RunLength(s, i + 1, ws)
    ELSE 0

RECURSIVE DigitsValue(_)
DigitsValue(s) ==
    IF s = <<>> THEN 0 ELSE 10 * DigitsValue(SubSeq(s, 1, Len(s) - 1)) + (s[Len(s)] - 48)

\* strtol(s, &endptr, 10): the value and the index of *endptr in s
\* (Len(s) + 1 is the terminating NUL); without digits endptr = s
strtol(s) ==
    LET i == 1 + RunLength(s, 1, TRUE)
        signed == i <= Len(s) /\ s[i] \in {43, 45}
        j == IF signed THEN i + 1 ELSE i
        k == RunLength(s, j, FALSE)
        v == DigitsValue(SubSeq(s, j, j + k - 1))
    IN  IF k = 0 THEN [n |-> 0, endptr |-> 1]
        ELSE [n |-> IF signed /\ s[i] = 45 THEN 0 - v ELSE v, endptr |-> j + k]

\* the index of the first '#' of name, 0 if there is none
strchr_hash(name) ==
    IF \E i \in 1..Len(name) : name[i] = 35
    THEN CHOOSE i \in 1..Len(name) : name[i] = 35 /\ \A j \in 1..(i - 1) : name[j] # 35
    ELSE 0

\* ain.c ain_get_function: name or name#index
ain_get_function(a, name) ==
    LET len == strchr_hash(name)
        rest == SubSeq(name, len + 1, Len(name))
        r == strtol(rest)
        n == IF len = 0 THEN 0
             ELSE IF rest = <<>> \/ r.endptr <= Len(rest) \/ r.n < 0 THEN 0
             ELSE r.n
        key == IF len = 0 THEN name ELSE SubSeq(name, 1, len - 1)
    IN  IF key \notin DOMAIN a._func_ht THEN -1
        ELSE IF n >= Len(a._func_ht[key]) THEN -1
        ELSE a._func_ht[key][n + 1]

\* ain.c read_variables for the globals: calloc leaves has_initval 0
read_globals(count) == [i \in 1..count |-> [has_initval |-> FALSE, initval |-> 0]]

\* ain.c distribute_initvals, the first n records of global_initvals: the
\* globals array after the loop and the values of global_index for which
\* &globals[global_index] lies outside the array, where the loop has
\* written all the same
RECURSIVE distribute_upto(_, _, _)
distribute_upto(globals, initvals, n) ==
    IF n = 0 THEN [globals |-> globals, wild |-> {}]
    ELSE LET d == distribute_upto(globals, initvals, n - 1)
             v == initvals[n]
         IN  IF v.global_index \in 0..(Len(globals) - 1)
             THEN [d EXCEPT !.globals[v.global_index + 1] =
                                [has_initval |-> TRUE, initval |-> v.int_value]]
             ELSE [d EXCEPT !.wild = @ \cup {v.global_index}]

distribute_initvals(globals, initvals) == distribute_upto(globals, initvals, Len(initvals))

NoAin ==
    [version |-> -1, structures |-> <<>>, enums |-> <<>>, functions |-> <<>>,
     _func_ht |-> EmptyHt, globals |-> <<>>, global_initvals |-> <<>>, wild |-> {}]

\* the process has been ended by a signal
Crashed == [NoAin EXCEPT !.version = -2]

\* ain = ain_open(path, &error) of a file of the given version whose
\* sections are complete.  A store through &globals[global_index] outside
\* the globals array is undefined: it lands in other memory of the process
\* or ends the process.
AinOpen(version, structs, enums, funcs, globs) ==
    /\ ain # Crashed
    /\ instructions' = read_tag_VERS(instructions, version)
    /\ LET d == distribute_initvals(read_globals(globs.nr_globals), globs.initvals)
       IN  \E signal \in (IF d.wild = {} THEN {FALSE} ELSE BOOLEAN) :
               ain' = IF signal THEN Crashed
                      ELSE [version |-> version, structures |-> structs, enums |-> enums,
                            functions |-> read_functions(funcs),
                            _func_ht |-> ain_index_functions(read_functions(funcs)),
                            globals |-> d.globals, global_initvals |-> globs.initvals,
                            wild |-> d.wild]
    /\ ilast' = [op |-> "ain_open", version |-> version]
    /\ UNCHANGED notAin

\* ain = ain_new(major_version, 0): one function named "NULL"
AinNew(version) ==
    /\ ain # Crashed
    /\ ain' = [version |-> version, structures |-> <<>>, enums |-> <<>>,
               functions |-> read_functions(<< <<78, 85, 76, 76>> >>),
               _func_ht |-> ain_index_functions(read_functions(<< <<78, 85, 76, 76>> >>)),
               globals |-> <<>>, global_initvals |-> <<>>, wild |-> {}]
    /\ UNCHANGED <<instructions, ilast, notAin>>

AinAddStruct(name) ==
    /\ ain.version >= 0
    /\ Len(ain.structures) < MaxStructs
    /\ ain' = [ain EXCEPT !.structures = Append(@, name)]
    /\ UNCHANGED <<instructions, ilast, notAin>>

AinAddFunction(name) ==
    /\ ain.version >= 0
    /\ Len(ain.functions) < MaxFuncs
    /\ ain' = [ain EXCEPT !.functions = Append(@, function_init_struct_type(ain, name)),
                           !._func_ht = func_ht_add(@, name, Len(ain.functions))]
    /\ UNCHANGED <<instructions, ilast, notAin>>

AinDupFunction(src_no) ==
    /\ ain.version >= 0
    /\ Len(ain.functions) < MaxFuncs
    /\ src_no < Len(ain.functions)
    /\ ain' = [ain EXCEPT !.functions = Append(@, ain.functions[src_no + 1]),
                           !._func_ht = func_ht_add(@, ain.functions[src_no + 1].name,
                                                    Len(ain.functions))]
    /\ UNCHANGED <<instructions, ilast, notAin>>

AinInitMemberFunctions ==
    /\ ain.version >= 0
    /\ ain' = [ain EXCEPT !.functions =
                   [i \in 1..Len(ain.functions) |-> init_member_function(ain, ain.functions[i])]]
    /\ UNCHANGED <<instructions, ilast, notAin>>

\* initialize_instructions(version), called by a client
InitializeInstructions(version) ==
    /\ ain # Crashed
    /\ instructions' = initialize_instructions(instructions, version)
    /\ ilast' = [op |-> "initialize_instructions", version |-> version]
    /\ UNCHANGED <<ain, notAin>>

\* process start: the static table, no ain object
AinInit ==
    /\ instructions = instructions0
    /\ ain = NoAin
    /\ ilast = [op |-> "start", version |-> -1]

\* a client that opens or creates one ain object and then builds on it
AinNext ==
    \/ /\ ain = NoAin
       /\ \E version \in Versions, file \in ParsedFiles :
              AinOpen(version, file.structs, file.enums, file.funcs, file.globs)
    \/ /\ ain = NoAin
       /\ \E version \in Versions : AinNew(version)
    \/ \E name \in StructNames : AinAddStruct(name)
    \/ \E name \in FuncNames : AinAddFunction(name)
    \/ \E src_no \in 0..(MaxFuncs - 1) : AinDupFunction(src_no)
    \/ AinInitMemberFunctions

\* a client that opens one ain file after the other and sets up the
\* instruction table itself
InstructionsNext ==
    \/ \E version \in Versions, file \in ParsedFiles :
           AinOpen(version, file.structs, file.enums, file.funcs, file.globs)
    \/ \E version \in Versions : InitializeInstructions(version)

AinIdle ==
    /\ instructions = instructions0
    /\ ain = NoAin
    /\ ilast = [op |-> "idle", version |-> -1]

(***************************************************************************)
(*  savefile.c: GlobalSave (gsave)                                         *)
(*                                                                         *)
(*  A gsave is built by gsave_create and the gsave_add_ calls, written by  *)
(*  gsave_write and read back by gsave_parse.  The file is kept as the     *)
(*  sequence of its fields, 32-bit words and NUL-terminated strings, each  *)
(*  with its size in bytes, so that the buffer index at a field is the     *)
(*  sum of the sizes before it.  A NULL char * is the string NullStr.      *)
(***************************************************************************)
\* the number of objects added to one gsave
MaxObjects == 3

GSAVE7_EMPTY_STRING == 2147483647
GSAVE_RECORD_GLOBALS == 1000
AIN_INT == 10
AIN_STRING == 12
AIN_STRUCT == 13
AIN_ARRAY_INT == 14
AIN_ENUM == 92
GSAVE_RECORD_STRUCT == AIN_STRUCT

\* ain.h: the types of the case lists of gsave_validate_value
AIN_ARRAY_TYPE == {14, 15, 16, 17, 30, 50, 58, 66}
AIN_REF_TYPE == {18, 19, 20, 21, 22, 23, 24, 25, 31, 32, 51, 52, 59, 60, 67, 69, 80}
AIN_PLAIN_TYPE == {0, 10, 47, 27, 63, 55, 11}

NullStr == <<-1>>

GsaveVersions == {4, 5, 7}

\* a value with its type, as a client stores them in globals, key-values
\* and array elements
TypedValues ==
    { [type |-> AIN_INT, value |-> 1],
      [type |-> AIN_STRING, value |-> 0],
      [type |-> AIN_STRING, value |-> GSAVE7_EMPTY_STRING],
      [type |-> AIN_STRUCT, value |-> 1],
      [type |-> AIN_ARRAY_INT, value |-> 0],
      [type |-> AIN_ENUM, value |-> 0] }

\* struct gsave_array: unallocated, one row of one value, two rows of one value
FlatArray(tv) == [nr_values |-> 1, type |-> tv.type, values |-> << tv >>]

ClientArrays ==
    { [rank |-> -1, dimensions |-> <<>>, flat_arrays |-> <<>>] }
    \cup { [rank |-> 1, dimensions |-> <<1>>, flat_arrays |-> << FlatArray(tv) >>] :
             tv \in { t \in TypedValues : t.type \in {AIN_INT, AIN_STRING} /\ t.value < 2 } }
    \cup { [rank |-> 2, dimensions |-> <<1, 2>>,
            flat_arrays |-> << FlatArray([type |-> AIN_INT, value |-> 1]),
                               FlatArray([type |-> AIN_INT, value |-> 1]) >>] }

\* struct gsave_record of a struct instance, as a client fills it in
ClientRecords ==
    { [type |-> GSAVE_RECORD_STRUCT, struct_name |-> <<83>>, struct_index |-> 0,
       indices |-> ix] : ix \in { <<>>, <<0>>, <<1>> } }

NoGsave ==
    [key |-> NullStr, uk1 |-> 0, version |-> 0, uk2 |-> 0, nr_ain_globals |-> 0,
     group |-> NullStr, records |-> <<>>, globals |-> <<>>, strings |-> <<>>,
     arrays |-> <<>>, keyvals |-> <<>>, struct_defs |-> <<>>]

\* savefile.c gsave_create(version, "k", 0, "g")
gsave_create(version) ==
    [NoGsave EXCEPT !.key = <<107>>, !.uk1 = 1000, !.version = version, !.uk2 = 56,
                    !.group = IF version >= 5 THEN <<103>> ELSE NullStr]

\* savefile.c gsave_add_globals_record: the globals come from xcalloc
gsave_add_globals_record(g, nr_globals) ==
    [g EXCEPT !.records = Append(@, [type |-> GSAVE_RECORD_GLOBALS, struct_name |-> <<>>,
                                     struct_index |-> -1,
                                     indices |-> [i \in 1..nr_globals |-> i - 1]]),
              !.globals = [i \in 1..nr_globals |->
                              [type |-> 0, value |-> 0, name |-> NullStr, unknown |-> 1]]]

\* savefile.c gsave_add_string: the index of the string, and the new gsave
gsave_add_string(g, s) ==
    IF g.version >= 7 /\ Len(s) = 0
    THEN [n |-> GSAVE7_EMPTY_STRING, gs |-> g]
    ELSE [n |-> Len(g.strings), gs |-> [g EXCEPT !.strings = Append(@, s)]]

\* the number of objects added so far
NrObjects(g) ==
    Len(g.records) + Len(g.strings) + Len(g.arrays) + Len(g.keyvals) + Len(g.struct_defs)

\* ---- the fields of a file ------------------------------------------
\* buffer.c buffer_write_int32 and buffer_write_cstringz: one field
I32(v) == [sz |-> 4, i |-> v, s |-> <<>>]
CStr(s) == [sz |-> Len(s) + 1, i |-> 0, s |-> s]

\* the concatenation of a sequence of sequences
RECURSIVE Flat(_)
Flat(ss) == IF ss = <<>> THEN <<>> ELSE Flat(SubSeq(ss, 1, Len(ss) - 1)) \o ss[Len(ss)]

\* the number of bytes of the first n fields: the buffer index behind them
RECURSIVE SizeUpto(_, _)
SizeUpto(file, n) == IF n = 0 THEN 0 ELSE SizeUpto(file, n - 1) + file[n].sz

\* w.index after the fields of w have been written
WIndex(w) == SizeUpto(w, Len(w))

\* buffer.c buffer_write_int32_at: v is written over the word at field loc
buffer_write_int32_at_lost(w, loc, v) == w

buffer_write_int32_at(w, loc, v) == [w EXCEPT ![loc] = I32(v)]

\* savefile.c gsave_write, the loop bodies
WriteRecord(version, r) ==
    (IF version <= 5 THEN << I32(r.type), CStr(r.struct_name) >> ELSE << I32(r.struct_index) >>)
    \o << I32(Len(r.indices)) >> \o [i \in 1..Len(r.indices) |-> I32(r.indices[i])]

WriteGlobal(version, g) ==
    << I32(g.type), I32(g.value), CStr(g.name) >>
    \o (IF version <= 5 THEN << I32(g.unknown) >> ELSE <<>>)

WriteFlatArray(version, fa) ==
    << I32(fa.nr_values) >> \o (IF version >= 7 THEN << I32(fa.type) >> ELSE <<>>)
    \o Flat([i \in 1..fa.nr_values |->
                << I32(fa.values[i].value) >>
                \o (IF version <= 5 THEN << I32(fa.values[i].type) >> ELSE <<>>)])

WriteArray(version, a) ==
    << I32(a.rank) >> \o [i \in 1..a.rank |-> I32(a.dimensions[i])]
    \o << I32(Len(a.flat_arrays)) >>
    \o Flat([j \in 1..Len(a.flat_arrays) |-> WriteFlatArray(version, a.flat_arrays[j])])

WriteKeyval(version, kv) ==
    IF version <= 5 THEN << I32(kv.type), I32(kv.value), CStr(kv.name) >>
    ELSE << I32(kv.value) >>

WriteStructDef(sd) ==
    << CStr(sd.name), I32(Len(sd.fields)) >>
    \o Flat([j \in 1..Len(sd.fields) |-> << I32(sd.fields[j].type), CStr(sd.fields[j].name) >>])

\* savefile.c gsave_write: the fields of the buffer handed to savefile_write.
\* The offset words are fields 6, 8, 10, 12 and 14 of the header.
gsave_write(g) ==
    LET v == g.version
        w0 == << CStr(g.key), I32(g.uk1), I32(v), I32(g.uk2), I32(g.nr_ain_globals),
                 I32(0), I32(Len(g.records)), I32(0), I32(Len(g.globals)),
                 I32(0), I32(Len(g.strings)), I32(0), I32(Len(g.arrays)),
                 I32(0), I32(Len(g.keyvals)) >>
              \o (IF v >= 5 THEN << CStr(g.group) >> ELSE <<>>)
        w1 == buffer_write_int32_at(w0, 6, WIndex(w0))
              \o Flat([i \in 1..Len(g.records) |-> WriteRecord(v, g.records[i])])
        w2 == buffer_write_int32_at(w1, 8, WIndex(w1))
              \o Flat([i \in 1..Len(g.globals) |-> WriteGlobal(v, g.globals[i])])
        w3 == buffer_write_int32_at(w2, 10, WIndex(w2))
              \o [i \in 1..Len(g.strings) |-> CStr(g.strings[i])]
        w4 == buffer_write_int32_at(w3, 12, WIndex(w3))
              \o Flat([i \in 1..Len(g.arrays) |-> WriteArray(v, g.arrays[i])])
        w5 == buffer_write_int32_at(w4, 14, WIndex(w4))
              \o Flat([i \in 1..Len(g.keyvals) |-> WriteKeyval(v, g.keyvals[i])])
    IN  IF v >= 7
        THEN w5 \o << I32(Len(g.struct_defs)) >>
                \o Flat([i \in 1..Len(g.struct_defs) |-> WriteStructDef(g.struct_defs[i])])
        ELSE w5

\* ---- gsave_parse ---------------------------------------------------
\* savefile.c gsave_validate_value; c holds the table sizes of the header
gsave_validate_value(val, type, c) ==
    CASE type \in AIN_PLAIN_TYPE \cup AIN_REF_TYPE -> TRUE
      [] type = AIN_STRING -> (0 <= val /\ val < c.nr_strings) \/ val = GSAVE7_EMPTY_STRING
      [] type = AIN_STRUCT -> 0 <= val /\ val < c.nr_records
      [] type \in AIN_ARRAY_TYPE -> 0 <= val /\ val < c.nr_arrays
      [] OTHER -> FALSE

RECURSIVE Product(_, _)
Product(dims, from) ==
    IF from > Len(dims) THEN 1 ELSE dims[from] * Product(dims, from + 1)

Max(a, b) == IF a > b THEN a ELSE b

\* the reader stands at field i (r.index is the size of the fields before
\* it); the outcome of reading one table entry is the entry, the field
\* behind it and whether the loop goes on (ok) or returns SAVEFILE_INVALID
RECURSIVE ParseTable(_, _, _, _, _)
RECURSIVE ParseItem(_, _, _, _)

\* savefile.c gsave_parse: the body of the loop over one kind of table
ParseItem(kind, file, i, c) ==
    CASE kind = "record" ->
           LET old == c.version <= 5
               struct_index == IF old THEN 0 ELSE file[i].i
               type == IF old THEN file[i].i
                       ELSE IF struct_index = -1 THEN GSAVE_RECORD_GLOBALS
                       ELSE GSAVE_RECORD_STRUCT
               j == IF old THEN i + 2 ELSE i + 1
               nr_indices == file[j].i
               index_ubound == IF type = GSAVE_RECORD_STRUCT THEN c.nr_keyvals
                               ELSE c.nr_globals
               indices == [k \in 1..nr_indices |-> file[j + k].i]
           IN  [ok |-> /\ type \in {GSAVE_RECORD_STRUCT, GSAVE_RECORD_GLOBALS}
                       /\ \A k \in 1..nr_indices :
                              ~(indices[k] < 0 \/ indices[k] >= index_ubound),
                i |-> j + 1 + nr_indices,
                item |-> [type |-> type,
                          struct_name |-> IF old THEN file[i + 1].s ELSE NullStr,
                          struct_index |-> struct_index, indices |-> indices]]
      [] kind = "global" ->
           LET old == c.version <= 5
               g == [type |-> file[i].i, value |-> file[i + 1].i, name |-> file[i + 2].s,
                     unknown |-> IF old THEN file[i + 3].i ELSE 0]
           IN  [ok |-> gsave_validate_value(g.value, g.type, c),
                i |-> IF old THEN i + 4 ELSE i + 3, item |-> g]
      [] kind = "string" ->
           [ok |-> TRUE, i |-> i + 1, item |-> file[i].s]
      [] kind = "array" ->
           LET rank == file[i].i
               dimensions == [k \in 1..rank |-> file[i + k].i]
               expected_nr_flat_arrays == IF rank > 0 THEN Product(dimensions, 2) ELSE 0
               j == i + 1 + Max(rank, 0)
               nr_flat_arrays == file[j].i
               fas == ParseTable("flat_array", file, j + 1, nr_flat_arrays,
                                 [c EXCEPT !.dim0 = IF rank > 0 THEN dimensions[1] ELSE 0])
           IN  IF nr_flat_arrays # expected_nr_flat_arrays
               THEN [ok |-> FALSE, i |-> j + 1, item |-> <<>>]
               ELSE [ok |-> fas.ok, i |-> fas.i,
                     item |-> [rank |-> rank,
                               dimensions |-> IF rank > 0 THEN dimensions ELSE <<>>,
                               flat_arrays |-> fas.items]]
      [] kind = "flat_array" ->
           LET new == c.version >= 7
               nr_values == file[i].i
               fatype == IF new THEN file[i + 1].i ELSE 0
               j == IF new THEN i + 2 ELSE i + 1
               values == [k \in 1..nr_values |->
                             IF new THEN [value |-> file[j + k - 1].i, type |-> fatype]
                             ELSE [value |-> file[j + 2 * (k - 1)].i,
                                   type |-> file[j + 2 * (k - 1) + 1].i]]
           IN  IF nr_values # c.dim0
               THEN [ok |-> FALSE, i |-> i + 1, item |-> <<>>]
               ELSE [ok |-> \A k \in 1..nr_values :
                                gsave_validate_value(values[k].value, values[k].type, c),
                     i |-> IF new THEN j + nr_values ELSE j + 2 * nr_values,
                     item |-> [nr_values |-> nr_values, type |-> fatype, values |-> values]]
      [] kind = "keyval" ->
           IF c.version <= 5
           THEN LET kv == [type |-> file[i].i, value |-> file[i + 1].i, name |-> file[i + 2].s]
                IN  [ok |-> gsave_validate_value(kv.value, kv.type, c), i |-> i + 3,
                     item |-> kv]
           ELSE [ok |-> TRUE, i |-> i + 1,
                 item |-> [type |-> 0, value |-> file[i].i, name |-> NullStr]]
      [] kind = "struct_def" ->
           LET nr_fields == file[i + 1].i
           IN  [ok |-> TRUE, i |-> i + 2 + 2 * nr_fields,
                item |-> [name |-> file[i].s,
                          fields |-> [k \in 1..nr_fields |->
                                         [type |-> file[i + 2 * k].i,
                                          name |-> file[i + 2 * k + 1].s]]]]

\* the loop over the n entries of a table that starts at field i
ParseTable(kind, file, i, n, c) ==
    IF n <= 0 THEN [ok |-> TRUE, i |-> i, items |-> <<>>]
    ELSE LET p == ParseTable(kind, file, i, n - 1, c)
         IN  IF ~p.ok THEN p
             ELSE LET e == ParseItem(kind, file, p.i, c)
                  IN  [ok |-> e.ok, i |-> e.i, items |-> Append(p.items, e.item)]

ParseError(error) == [error |-> error, gs |-> NoGsave]

\* savefile.c gsave_parse, as gsave_read returns it: the gsave on success,
\* the error and no gsave otherwise
gsave_parse(file) ==
    LET version == file[3].i
        c == [version |-> version, nr_records |-> file[7].i, nr_globals |-> file[9].i,
              nr_strings |-> file[11].i, nr_arrays |-> file[13].i,
              nr_keyvals |-> file[15].i, dim0 |-> 0]
        records_offset == file[6].i
        globals_offset == file[8].i
        strings_offset == file[10].i
        arrays_offset == file[12].i
        keyvals_offset == file[14].i
        i0 == IF version >= 5 THEN 17 ELSE 16
        recs == ParseTable("record", file, i0, c.nr_records, c)
        globs == ParseTable("global", file, recs.i, c.nr_globals, c)
        strings == ParseTable("string", file, globs.i, c.nr_strings, c)
        arrs == ParseTable("array", file, strings.i, c.nr_arrays, c)
        kvs == ParseTable("keyval", file, arrs.i, c.nr_keyvals, c)
        sds == ParseTable("struct_def", file, kvs.i + 1, file[kvs.i].i, c)
    IN  IF version \notin {4, 5, 7} THEN ParseError("SAVEFILE_UNSUPPORTED_FORMAT")
        ELSE IF SizeUpto(file, i0 - 1) # records_offset \/ ~recs.ok
        THEN ParseError("SAVEFILE_INVALID")
        ELSE IF SizeUpto(file, recs.i - 1) # globals_offset \/ ~globs.ok
        THEN ParseError("SAVEFILE_INVALID")
        ELSE IF SizeUpto(file, globs.i - 1) # strings_offset
        THEN ParseError("SAVEFILE_INVALID")
        ELSE IF SizeUpto(file, strings.i - 1) # arrays_offset \/ ~arrs.ok
        THEN ParseError("SAVEFILE_INVALID")
        ELSE IF SizeUpto(file, arrs.i - 1) # keyvals_offset \/ ~kvs.ok
        THEN ParseError("SAVEFILE_INVALID")
        ELSE [error |-> "SAVEFILE_SUCCESS",
              gs |-> [key |-> file[1].s, uk1 |-> file[2].i, version |-> version,
                      uk2 |-> file[4].i, nr_ain_globals |-> file[5].i,
                      group |-> IF version >= 5 THEN file[16].s ELSE NullStr,
                      records |-> recs.items, globals |-> globs.items,
                      strings |-> strings.items, arrays |-> arrs.items,
                      keyvals |-> kvs.items,
                      struct_defs |-> IF version >= 7 THEN sds.items ELSE <<>>]]

\* ---- the client: build, write, read back ---------------------------
NoParse == [error |-> "none", gs |-> NoGsave]

\* the gsave is still being built and takes one more object
Building == gs.version # 0 /\ gfile = <<>> /\ NrObjects(gs) < MaxObjects

GsaveCreate(version) ==
    /\ gs = NoGsave
    /\ gs' = gsave_create(version)
    /\ UNCHANGED <<gfile, gres, notSav>>

\* gsave_add_globals_record asserts that there are no globals yet
GsaveAddGlobalsRecord(nr_globals) ==
    /\ Building
    /\ Len(gs.globals) = 0
    /\ gs' = gsave_add_globals_record(gs, nr_globals)
    /\ UNCHANGED <<gfile, gres, notSav>>

\* the client stores type, value and name "n" in globals[i]
GsaveSetGlobal(i, tv) ==
    /\ gs.version # 0 /\ gfile = <<>>
    /\ i < Len(gs.globals)
    /\ gs' = [gs EXCEPT !.globals[i + 1] =
                 [@ EXCEPT !.type = tv.type, !.value = tv.value, !.name = <<110>>]]
    /\ UNCHANGED <<gfile, gres, notSav>>

GsaveAddRecord(rec) ==
    /\ Building
    /\ gs' = [gs EXCEPT !.records = Append(@, rec)]
    /\ UNCHANGED <<gfile, gres, notSav>>

GsaveAddString(s) ==
    /\ Building
    /\ gs' = gsave_add_string(gs, s).gs
    /\ UNCHANGED <<gfile, gres, notSav>>

GsaveAddArray(array) ==
    /\ Building
    /\ gs' = [gs EXCEPT !.arrays = Append(@, array)]
    /\ UNCHANGED <<gfile, gres, notSav>>

\* gsave_add_keyval of a key-value named "f"
GsaveAddKeyval(tv) ==
    /\ Building
    /\ gs' = [gs EXCEPT !.keyvals =
                 Append(@, [type |-> tv.type, value |-> tv.value, name |-> <<102>>])]
    /\ UNCHANGED <<gfile, gres, notSav>>

\* gsave_add_struct_def of a structure "S" with one member "f" of the type
GsaveAddStructDef(type) ==
    /\ Building
    /\ gs' = [gs EXCEPT !.struct_defs =
                 Append(@, [name |-> <<83>>,
                            fields |-> << [type |-> type, name |-> <<102>>] >>])]
    /\ UNCHANGED <<gfile, gres, notSav>>

\* gsave_write of a gsave all of whose globals have been given a name
\* (strlen of a NULL name is not followed)
GsaveWrite ==
    /\ gs.version # 0 /\ gfile = <<>>
    /\ \A i \in 1..Len(gs.globals) : gs.globals[i].name # NullStr
    /\ gfile' = gsave_write(gs)
    /\ UNCHANGED <<gs, gres, notSav>>

\* gsave_read of the file written
GsaveParse ==
    /\ gfile # <<>> /\ gres = NoParse
    /\ gres' = gsave_parse(gfile)
    /\ UNCHANGED <<gs, gfile, notSav>>

SavInit ==
    /\ gs = NoGsave
    /\ gfile = <<>>
    /\ gres = NoParse

SavNext ==
    \/ \E version \in GsaveVersions : GsaveCreate(version)
    \/ \E nr_globals \in 0..1 : GsaveAddGlobalsRecord(nr_globals)
    \/ \E tv \in TypedValues : GsaveSetGlobal(0, tv)
    \/ \E rec \in ClientRecords : GsaveAddRecord(rec)
    \/ \E s \in { <<>>, <<115>> } : GsaveAddString(s)
    \/ \E array \in ClientArrays : GsaveAddArray(array)
    \/ \E tv \in TypedValues : GsaveAddKeyval(tv)
    \/ \E type \in {AIN_INT, AIN_STRING} : GsaveAddStructDef(type)
    \/ GsaveWrite
    \/ GsaveParse

SavIdle ==
    /\ gs = NoGsave
    /\ gfile = <<>>
    /\ gres = [error |-> "idle", gs |-> NoGsave]

(***************************************************************************)
(*  savefile.c: ResumeSave (rsave)                                         *)
(*                                                                         *)
(*  rsave_parse reads a file that begins with "RSM".  The file is given    *)
(*  by its fields: version, comments, the three parallel arrays of the     *)
(*  call frames and the heap objects; the instruction pointer is the       *)
(*  dummy record, the stack and the return records are empty, the          *)
(*  reserved words are zero and there are no function names.               *)
(***************************************************************************)
MaxHeapObjs == 2
MaxFrames == 2

RSAVE_METHOD_CALL == 2
RSAVE_GLOBALS == 0
RSAVE_LOCALS == 1
RSAVE_STRING == 2
RSAVE_ARRAY == 3
RSAVE_STRUCT == 4
RSAVE_DELEGATE == 5
RSAVE_NULL == -1
AIN_ARRAY_STRING == 16

RsaveVersions == {3, 4, 6, 7, 9}

\* the words found in slots: -1, the first heap index and a number that is
\* the index of no heap object
SlotWords == {-1, 0, MaxHeapObjs}

\* the fields of one heap object of a file; func_id is the word after ref
\* of a frame, types the type list of a frame or struct and data_type the
\* element type of an array
HeapObjFields ==
    { [tag |-> t, func_id |-> -1, data_type |-> 0, types |-> <<AIN_STRING>>,
       slots_size |-> 4, slots |-> <<w>>] :
          t \in {RSAVE_GLOBALS, RSAVE_LOCALS, RSAVE_STRUCT}, w \in SlotWords }
    \cup { [tag |-> RSAVE_ARRAY, func_id |-> -1, data_type |-> AIN_ARRAY_STRING, types |-> <<>>,
            slots_size |-> 4, slots |-> <<w>>] : w \in SlotWords }
    \cup { [tag |-> RSAVE_DELEGATE, func_id |-> -1, data_type |-> 0, types |-> <<>>,
            slots_size |-> 4, slots |-> <<w>>] : w \in SlotWords }
    \cup { [tag |-> t, func_id |-> -1, data_type |-> 0, types |-> <<>>,
            slots_size |-> 0, slots |-> <<>>] : t \in {RSAVE_STRING, RSAVE_NULL, 6} }
    \cup { [tag |-> RSAVE_GLOBALS, func_id |-> 0, data_type |-> 0, types |-> <<>>,
            slots_size |-> 0, slots |-> <<>>],
           [tag |-> RSAVE_STRUCT, func_id |-> -1, data_type |-> 0, types |-> <<>>,
            slots_size |-> 5, slots |-> <<0>>] }

\* the call frame arrays of a file: local pointers, frame types and the
\* struct pointers of the method-call frames
CallFrameFields ==
    { [local_ptrs |-> l, frame_types |-> t, struct_ptrs |-> s] :
        l \in { <<>>, <<0>>, <<0, 1>> },
        t \in { <<>>, <<1>>, <<RSAVE_METHOD_CALL>>, <<RSAVE_METHOD_CALL, RSAVE_METHOD_CALL>> },
        s \in { <<>>, <<0>>, <<0, 1>> } }

NoFrames == [local_ptrs |-> <<>>, frame_types |-> <<>>, struct_ptrs |-> <<>>]

\* files that differ in their heap objects, and files that differ in their
\* call frames
RsaveFiles ==
    [version : RsaveVersions, nr_comments : {0}, body : {TRUE}, frames : {NoFrames},
     heap : { h \in SeqsUpTo(HeapObjFields, MaxHeapObjs) :
                \A i \in 1..Len(h) : i > 1 => h[i].slots \in { <<>>, <<0>> } },
     trailing : {0, 4}]
    \cup
    [version : RsaveVersions, nr_comments : {0, 1}, body : BOOLEAN,
     frames : { f \in CallFrameFields : Len(f.local_ptrs) <= MaxFrames },
     heap : { <<>> }, trailing : {0}]

\* savefile.c parse_call_frames: the frames, whether the call ended in
\* ERROR, and the number of reads of struct_ptrs[] at or beyond its length
parse_call_frames(f) ==
    LET nr_local_ptrs == Len(f.local_ptrs)
        nr_frame_types == Len(f.frame_types)
        nr_struct_ptrs == Len(f.struct_ptrs)
        \* struct_ptr_index before frame i (1-based) is looked at
        before(i) == Cardinality({ j \in 1..(i - 1) : f.frame_types[j] = RSAVE_METHOD_CALL })
        struct_ptr_index == before(nr_local_ptrs + 1)
    IN  IF nr_local_ptrs # nr_frame_types
        THEN [fatal |-> TRUE, beyond |-> 0, frames |-> <<>>]
        ELSE [fatal |-> struct_ptr_index # nr_struct_ptrs,
              beyond |-> Max(struct_ptr_index - nr_struct_ptrs, 0),
              frames |-> [i \in 1..nr_local_ptrs |->
                  [type |-> f.frame_types[i], local_ptr |-> f.local_ptrs[i],
                   struct_ptr |-> IF f.frame_types[i] # RSAVE_METHOD_CALL THEN -1
                                  ELSE IF before(i) < nr_struct_ptrs
                                  THEN f.struct_ptrs[before(i) + 1]
                                  ELSE 0]]]

\* savefile.c parse_heap_frame, parse_heap_string, parse_heap_array,
\* parse_heap_struct, parse_heap_delegate: the object, or NULL (field
\* null) where the function returns NULL or the tag is unknown
parse_heap_obj(o, version) ==
    LET obj == [null |-> FALSE, tag |-> o.tag, data_type |-> o.data_type, types |-> o.types,
                nr_slots |-> o.slots_size \div 4, slots |-> o.slots]
        null == [null |-> TRUE, tag |-> o.tag, data_type |-> 0, types |-> <<>>,
                 nr_slots |-> 0, slots |-> <<>>]
    IN  CASE o.tag \in {RSAVE_GLOBALS, RSAVE_LOCALS} ->
               IF version # 4 /\ o.tag = RSAVE_GLOBALS /\ o.func_id # -1 THEN null
               ELSE IF o.slots_size % 4 # 0 THEN null ELSE obj
          [] o.tag = RSAVE_STRING -> obj
          [] o.tag \in {RSAVE_ARRAY, RSAVE_STRUCT} ->
               IF o.slots_size % 4 # 0 THEN null ELSE obj
          [] o.tag = RSAVE_DELEGATE ->
               IF version < 9 THEN null
               ELSE IF o.slots_size % 4 # 0 THEN null ELSE obj
          [] o.tag = RSAVE_NULL -> obj
          [] OTHER -> null

NoRsave == [version |-> 0, comments_only |-> FALSE, call_frames |-> <<>>, heap |-> <<>>]

\* savefile.c rsave_parse as rsave_read returns it; error "ERROR" is the
\* fatal ERROR macro, beyond counts the reads beyond the struct pointers
rsave_parse(file, mode) ==
    LET cf == parse_call_frames(file.frames)
        bad == { i \in 1..Len(file.heap) : parse_heap_obj(file.heap[i], file.version).null }
        done(error, rs) == [error |-> error, beyond |-> 0, rs |-> rs]
    IN  IF file.version \notin {4, 6, 7, 9}
        THEN done("SAVEFILE_UNSUPPORTED_FORMAT", NoRsave)
        ELSE IF (file.version >= 7 /\ ~file.body) \/ mode = "RSAVE_READ_COMMENTS"
        THEN done("SAVEFILE_SUCCESS",
                  [NoRsave EXCEPT !.version = file.version, !.comments_only = TRUE])
        ELSE IF cf.fatal
        THEN [error |-> "ERROR", beyond |-> cf.beyond, rs |-> NoRsave]
        ELSE IF bad # {} \/ file.trailing # 0
        THEN done("SAVEFILE_INVALID", NoRsave)
        ELSE done("SAVEFILE_SUCCESS",
                  [version |-> file.version, comments_only |-> FALSE,
                   call_frames |-> cf.frames,
                   heap |-> [i \in 1..Len(file.heap) |->
                                parse_heap_obj(file.heap[i], file.version)]])

NoFile ==
    [version |-> 0, nr_comments |-> 0, body |-> FALSE,
     frames |-> NoFrames, heap |-> <<>>, trailing |-> 0]

NoRead == [error |-> "none", beyond |-> 0, rs |-> NoRsave]

\* rs = rsave_read(path, mode, &error); a read beyond the struct pointers
\* is a read outside the allocation: it returns some word and the parse
\* goes on to its ERROR, or the process is killed at the read
RsaveRead(file, mode) ==
    LET r == rsave_parse(file, mode)
    IN  /\ rres.error \notin {"ERROR", "SIGSEGV"}
        /\ rfile' = file
        /\ \E error \in (IF r.beyond > 0 THEN {r.error, "SIGSEGV"} ELSE {r.error}) :
               rres' = [r EXCEPT !.error = error]
        /\ UNCHANGED notRsv

RsvInit ==
    /\ rfile = NoFile
    /\ rres = NoRead

\* rsave_read keeps no state between calls: one read per process
RsvNext ==
    /\ rres = NoRead
    /\ \E file \in RsaveFiles, mode \in {"RSAVE_READ_ALL", "RSAVE_READ_COMMENTS"} :
           RsaveRead(file, mode)

RsvIdle ==
    /\ rfile = NoFile
    /\ rres = [error |-> "idle", beyond |-> 0, rs |-> NoRsave]

(***************************************************************************)
(*  ex.c: EX files                                                         *)
(*                                                                         *)
(*  A decoded EX file is the sequence of its blocks.  A block has a name   *)
(*  (a sequence of character codes), a type and, by type, an integer, a    *)
(*  table (fields, the two persisted count words w1 and w2, in file        *)
(*  order, and the integer found in every cell) or a tree.  The layout of  *)
(*  the count words is a static variable of ex.c.                          *)
(***************************************************************************)
MaxTables == 3

EX_INT == 1
EX_FLOAT == 2
EX_STRING == 3
EX_TABLE == 4
EX_TREE == 6

\* "a", "ab" and "b"; '.' separates the names of a path
ExNameA == <<97>>
ExNameAB == <<97, 98>>
ExNameB == <<98>>
ExDot == 46

ExNoValue == [type |-> 0, i |-> 0, f |-> 0, s |-> <<>>]
ExInt(i) == [type |-> EX_INT, i |-> i, f |-> 0, s |-> <<>>]
\* a float is given in millionths
ExFloat(f) == [type |-> EX_FLOAT, i |-> 0, f |-> f, s |-> <<>>]
ExString(s) == [type |-> EX_STRING, i |-> 0, f |-> 0, s |-> s]
\* a table as the default value of a field of type EX_TABLE
ExTableValue == [type |-> EX_TABLE, i |-> 0, f |-> 0, s |-> <<>>]

ExField(type, name, has_value, value, is_index, subfields) ==
    [type |-> type, name |-> name, has_value |-> has_value, value |-> value,
     is_index |-> is_index, subfields |-> subfields]

ExNoTable == [nr_fields |-> 0, fields |-> <<>>, nr_columns |-> 0, nr_rows |-> 0, rows |-> <<>>]
\* a tree node: children_at tells the children arrays of one node apart (it
\* counts the times the array has moved), and _children[i] is the array
\* and the index that _children[i].tree points to
ExNoTree == [name |-> <<>>, is_leaf |-> FALSE, leaf |-> [name |-> <<>>, value |-> ExNoValue],
             children |-> <<>>, children_at |-> 0, _children |-> <<>>]

\* a block of a file
FileBlock(name, type, i, fields, w1, w2, cell, tree) ==
    [name |-> name, type |-> type, i |-> i, fields |-> fields, w1 |-> w1, w2 |-> w2,
     cell |-> cell, tree |-> tree]
FileInt(name, i) == FileBlock(name, EX_INT, i, <<>>, 0, 0, 0, ExNoTree)
FileTable(name, fields, w1, w2, cell) == FileBlock(name, EX_TABLE, 0, fields, w1, w2, cell, ExNoTree)
FileTree(name, tree) == FileBlock(name, EX_TREE, 0, <<>>, 0, 0, 0, tree)

\* ex.c ex_read_table: the counts of a table whose persisted count words
\* are w1 and w2, read under layout; error is the EX_ERROR exit
ex_read_table_nolatch(layout, w1, w2, nr_fields) ==
    LET nr_columns == IF layout = "TABLE_ROWS_FIRST" THEN w2 ELSE w1
        nr_rows == IF layout = "TABLE_ROWS_FIRST" THEN w1 ELSE w2
    IN  IF layout = "TABLE_DEFAULT" /\ nr_columns # nr_fields
        THEN IF nr_rows = nr_fields
             THEN [error |-> FALSE, table_layout |-> layout,
                   nr_columns |-> nr_rows, nr_rows |-> nr_columns]
             ELSE [error |-> TRUE, table_layout |-> layout, nr_columns |-> 0, nr_rows |-> 0]
        ELSE IF nr_columns # nr_fields
        THEN [error |-> TRUE, table_layout |-> layout, nr_columns |-> 0, nr_rows |-> 0]
        ELSE [error |-> FALSE, table_layout |-> layout,
              nr_columns |-> nr_columns, nr_rows |-> nr_rows]

ex_read_table(layout, w1, w2, nr_fields) ==
    LET nr_columns == IF layout = "TABLE_ROWS_FIRST" THEN w2 ELSE w1
        nr_rows == IF layout = "TABLE_ROWS_FIRST" THEN w1 ELSE w2
    IN  IF layout = "TABLE_DEFAULT" /\ nr_columns # nr_fields
        THEN IF nr_rows = nr_fields
             THEN [error |-> FALSE, table_layout |-> "TABLE_ROWS_FIRST",
                   nr_columns |-> nr_rows, nr_rows |-> nr_columns]
             ELSE [error |-> TRUE, table_layout |-> layout, nr_columns |-> 0, nr_rows |-> 0]
        ELSE IF nr_columns # nr_fields
        THEN [error |-> TRUE, table_layout |-> layout, nr_columns |-> 0, nr_rows |-> 0]
        ELSE [error |-> FALSE, table_layout |-> layout,
              nr_columns |-> nr_columns, nr_rows |-> nr_rows]

\* ex.c ex_read_block: the block in memory
ex_read_block(b, layout) ==
    LET c == ex_read_table(layout, b.w1, b.w2, Len(b.fields))
    IN  [name |-> b.name, type |-> b.type, i |-> b.i,
         t |-> IF b.type # EX_TABLE \/ c.error THEN ExNoTable
               ELSE [nr_fields |-> Len(b.fields), fields |-> b.fields,
                     nr_columns |-> c.nr_columns, nr_rows |-> c.nr_rows,
                     rows |-> [r \in 1..c.nr_rows |-> [k \in 1..c.nr_columns |-> ExInt(b.cell)]]],
         tree |-> b.tree]

\* ex.c _ex_read from block n on: the blocks read, the layout left behind,
\* for every table read its count words and the layout before and after
\* it, and whether an EX_ERROR ended the process
RECURSIVE ex_read_from(_, _, _)
ex_read_from(file, n, layout) ==
    IF n > Len(file) THEN [blocks |-> <<>>, table_layout |-> layout, tables |-> <<>>, error |-> FALSE]
    ELSE LET b == file[n]
             c == ex_read_table(layout, b.w1, b.w2, Len(b.fields))
         IN  IF b.type = EX_TABLE /\ c.error
             THEN [blocks |-> <<>>, table_layout |-> layout, tables |-> <<>>, error |-> TRUE]
             ELSE LET after == IF b.type = EX_TABLE THEN c.table_layout ELSE layout
                      rest == ex_read_from(file, n + 1, after)
                      entry == [w1 |-> b.w1, w2 |-> b.w2, nr_fields |-> Len(b.fields),
                                nr_columns |-> c.nr_columns, nr_rows |-> c.nr_rows,
                                before |-> layout, after |-> after]
                  IN  [blocks |-> <<ex_read_block(b, layout)>> \o rest.blocks,
                       table_layout |-> rest.table_layout,
                       tables |-> IF b.type = EX_TABLE THEN <<entry>> \o rest.tables
                                  ELSE rest.tables,
                       error |-> rest.error]

_ex_read(file, layout) == ex_read_from(file, 1, layout)

\* the object ex_read makes of a file in a fresh process
Loaded(file) == _ex_read(file, "TABLE_DEFAULT").blocks

ExIdleOp == [op |-> "idle"]

\* ex = ex_read(data, size)
ExRead(file) ==
    LET r == _ex_read(file, table_layout)
    IN  /\ exlast.op \notin {"idle", "ERROR"}
        /\ table_layout' = r.table_layout
        /\ ex' = IF r.error THEN <<>> ELSE r.blocks
        /\ exlast' = [op |-> IF r.error THEN "ERROR" ELSE "read", before |-> table_layout,
                      file |-> file, tables |-> r.tables]
        /\ UNCHANGED notEx

\* files of tables only: one int field, or two, and count words 1 and 2
ExIntField(name) == ExField(EX_INT, name, 0, ExNoValue, 0, <<>>)

TableBlocks ==
    { FileTable(ExNameA, fields, w1, w2, 0) :
        fields \in { <<ExIntField(ExNameA)>>, <<ExIntField(ExNameA), ExIntField(ExNameB)>> },
        w1 \in 1..2, w2 \in 1..2 }

TableFiles == SeqsUpTo(TableBlocks, MaxTables)

ExInit ==
    /\ table_layout = "TABLE_DEFAULT"
    /\ ex = <<>>
    /\ exlast = [op |-> "none"]

ExIdle ==
    /\ table_layout = "TABLE_DEFAULT"
    /\ ex = <<>>
    /\ exlast = ExIdleOp

\* the first file a process reads, and the shorter files it reads later
ExReadNext ==
    \/ /\ exlast.op = "none"
       /\ \E file \in TableFiles : ExRead(file)
    \/ /\ exlast.op = "read"
       /\ \E file \in SeqsUpTo(TableBlocks, 2) : ExRead(file)

\* the character of a C string at position i (from 1), NUL at its end
CharAt(s, i) == IF i <= Len(s) THEN s[i] ELSE 0

\* !strncmp(s1, s2, n)
StrncmpEqual(s1, s2, n) ==
    \A i \in 1..n :
        (\A j \in 1..(i - 1) : CharAt(s1, j) # 0) => CharAt(s1, i) = CharAt(s2, i)

\* strchr(path, '.'): the position of the first '.', 0 for NULL
strchr_dot(path) ==
    IF \E i \in 1..Len(path) : path[i] = ExDot
    THEN CHOOSE i \in 1..Len(path) : path[i] = ExDot /\ \A j \in 1..(i - 1) : path[j] # ExDot
    ELSE 0

\* what a getter returns: NULL, or the value it points to
ExNull == [null |-> TRUE, type |-> 0, i |-> 0, tree |-> ExNoTree]
ExPtr(type, i, tree) == [null |-> FALSE, type |-> type, i |-> i, tree |-> tree]

ExLeaf(name, leaf_name, v) ==
    [name |-> name, is_leaf |-> TRUE, leaf |-> [name |-> leaf_name, value |-> ExInt(v)],
     children |-> <<>>, children_at |-> 0, _children |-> <<>>]
ExNode(name, children) ==
    [name |-> name, is_leaf |-> FALSE, leaf |-> [name |-> <<>>, value |-> ExNoValue],
     children |-> children, children_at |-> 0,
     _children |-> [i \in 1..Len(children) |-> [at |-> 0, index |-> i]]]

\* ex.c ex_tree_get_path
RECURSIVE ex_tree_get_path(_, _)
ex_tree_get_path(tree, path) ==
    LET next == strchr_dot(path)
        len == IF next # 0 THEN next - 1 ELSE Len(path)
        hits == { i \in 1..Len(tree.children) : StrncmpEqual(tree.children[i].name, path, len) }
    IN  IF tree.is_leaf
        THEN IF next = 0 /\ tree.leaf.name = path
             THEN ExPtr(tree.leaf.value.type, tree.leaf.value.i, ExNoTree)
             ELSE ExNull
        ELSE IF hits = {} THEN ExNull
        ELSE LET i == CHOOSE h \in hits : \A g \in hits : h <= g
             IN  IF next # 0
                 THEN ex_tree_get_path(tree.children[i], SubSeq(path, next + 1, Len(path)))
                 ELSE IF tree.children[i].is_leaf
                 THEN ExPtr(tree.children[i].leaf.value.type, tree.children[i].leaf.value.i,
                            ExNoTree)
                 ELSE ExPtr(EX_TREE, 0, tree.children[i])

\* ex.c _ex_get: the index of the block found, 0 for NULL
_ex_get(blocks, name, name_len) ==
    LET hits == { i \in 1..Len(blocks) : StrncmpEqual(blocks[i].name, name, name_len) }
    IN  IF hits = {} THEN 0 ELSE CHOOSE h \in hits : \A g \in hits : h <= g

\* ex.c ex_get
ex_get(blocks, name) ==
    LET next == strchr_dot(name)
        len == IF next # 0 THEN next - 1 ELSE Len(name)
        v == _ex_get(blocks, name, len)
    IN  IF v = 0 THEN ExNull
        ELSE IF next = 0 THEN ExPtr(blocks[v].type, blocks[v].i, blocks[v].tree)
        ELSE IF blocks[v].type # EX_TREE THEN ExNull
        ELSE ex_tree_get_path(blocks[v].tree, SubSeq(name, next + 1, Len(name)))

\* ex.c ex_get_block: the index of the block found, 0 for NULL
ex_get_block(blocks, name, type) ==
    LET hits == { i \in 1..Len(blocks) : blocks[i].type = type /\ blocks[i].name = name }
    IN  IF hits = {} THEN 0 ELSE CHOOSE h \in hits : \A g \in hits : h <= g

\* ex.c ex_tree_get_child: the index of the child found, 0 for NULL
ex_tree_get_child(tree, name) ==
    LET hits == { i \in 1..Len(tree.children) : tree.children[i].name = name }
    IN  IF tree.is_leaf \/ hits = {} THEN 0 ELSE CHOOSE h \in hits : \A g \in hits : h <= g

\* ex.c ex_value_equal; floats are in millionths
ex_value_equal(a, b) ==
    IF a.type # b.type THEN FALSE
    ELSE CASE a.type = EX_INT -> a.i = b.i
           [] a.type = EX_FLOAT -> (IF a.f >= b.f THEN a.f - b.f ELSE b.f - a.f) < 10
           [] a.type = EX_STRING -> a.s = b.s
           [] OTHER -> FALSE

RECURSIVE ex_field_equal(_, _)
ex_field_equal(a, b) ==
    /\ a.type = b.type
    /\ a.name = b.name
    /\ a.has_value = b.has_value
    /\ (a.has_value # 0 => ex_value_equal(a.value, b.value))
    /\ a.is_index = b.is_index
    /\ Len(a.subfields) = Len(b.subfields)
    /\ \A i \in 1..Len(a.subfields) : ex_field_equal(a.subfields[i], b.subfields[i])

ex_header_equal(a, b) ==
    /\ a.nr_columns = b.nr_columns
    /\ \A i \in 1..a.nr_columns : ex_field_equal(a.fields[i], b.fields[i])

\* ex.c ex_append_table
ex_append_table(out, in) ==
    IF ~ex_header_equal(out, in) THEN [error |-> TRUE, t |-> out]
    ELSE [error |-> FALSE,
          t |-> [out EXCEPT !.rows = out.rows \o in.rows,
                            !.nr_rows = out.nr_rows + in.nr_rows]]

RECURSIVE ex_append_tree_from(_, _, _, _)
RECURSIVE ex_tree_append_child(_, _, _)

\* ex.c ex_tree_append_child without the search for a child of the same name
ex_tree_append_child_always(out, child, moved) ==
    [error |-> FALSE, tree |-> [out EXCEPT !.children = Append(@, child)]]

\* ex.c ex_tree_append_child; moved tells whether realloc moves the arrays
\* it is given; ex_append_tree_from is ex_append_tree from child n of `in` on
ex_tree_append_child(out, child, moved) ==
    LET i == ex_tree_get_child(out, child.name)
        at == IF moved THEN out.children_at + 1 ELSE out.children_at
    IN  IF i = 0
        THEN [error |-> FALSE,
              tree |-> [out EXCEPT
                  !.children = Append(@, child),
                  !.children_at = at,
                  !._children = Append(@, [at |-> at, index |-> Len(out.children) + 1])]]
        ELSE IF child.is_leaf # out.children[i].is_leaf
        THEN [error |-> TRUE, tree |-> out]
        ELSE IF child.is_leaf
        THEN [error |-> FALSE,
              tree |-> [out EXCEPT !.children[i].leaf.value = child.leaf.value]]
        ELSE LET r == ex_append_tree_from(out.children[i], child, 1, moved)
             IN  [error |-> r.error, tree |-> [out EXCEPT !.children[i] = r.tree]]

ex_append_tree_from(out, in, n, moved) ==
    IF out.is_leaf \/ in.is_leaf THEN [error |-> TRUE, tree |-> out]
    ELSE IF n > Len(in.children) THEN [error |-> FALSE, tree |-> out]
    ELSE LET r == ex_tree_append_child(out, in.children[n], moved)
         IN  IF r.error THEN r ELSE ex_append_tree_from(r.tree, in, n + 1, moved)

ex_append_tree(out, in, moved) == ex_append_tree_from(out, in, 1, moved)

\* ex.c ex_append from block n of `append` on; error is the ERROR exit
RECURSIVE ex_append_from(_, _, _, _)
ex_append_from(base, append, n, moved) ==
    IF n > Len(append) THEN [error |-> FALSE, blocks |-> base]
    ELSE LET b == append[n]
             src == ex_get_block(base, b.name, b.type)
         IN  IF src = 0 THEN ex_append_from(Append(base, b), append, n + 1, moved)
             ELSE CASE b.type = EX_TABLE ->
                         LET r == ex_append_table(base[src].t, b.t)
                         IN  IF r.error THEN [error |-> TRUE, blocks |-> base]
                             ELSE ex_append_from([base EXCEPT ![src].t = r.t], append, n + 1,
                                                 moved)
                    [] b.type = EX_TREE ->
                         LET r == ex_append_tree(base[src].tree, b.tree, moved)
                         IN  IF r.error THEN [error |-> TRUE, blocks |-> base]
                             ELSE ex_append_from([base EXCEPT ![src].tree = r.tree], append,
                                                 n + 1, moved)
                    [] OTHER -> ex_append_from([base EXCEPT ![src].i = b.i], append, n + 1,
                                               moved)

ex_append(base, append, moved) == ex_append_from(base, append, 1, moved)

\* v = ex_get(ex, name)
ExGet(name) ==
    /\ exlast.op \in {"read", "get"}
    /\ exlast' = [op |-> "get", name |-> name, result |-> ex_get(ex, name)]
    /\ UNCHANGED <<table_layout, ex>>
    /\ UNCHANGED notEx

\* ex_append(ex, append)
ExAppend(append) ==
    /\ exlast.op \in {"read", "get"}
    /\ \E moved \in BOOLEAN :
           LET r == ex_append(ex, append, moved)
           IN  /\ ex' = IF r.error THEN <<>> ELSE r.blocks
               /\ exlast' = [op |-> IF r.error THEN "ERROR" ELSE "append", base |-> ex,
                             append |-> append]
    /\ UNCHANGED table_layout
    /\ UNCHANGED notEx

\* no element, one or two
UpToTwo(S) == { <<>> } \cup { <<x>> : x \in S } \cup { <<x, y>> : x \in S, y \in S }

\* trees of depth two whose nodes are named "a" or "ab" and whose leaves
\* hold one of values
TreesOf(values) ==
    LET leaves == { ExLeaf(n, n, v) : n \in {ExNameA, ExNameAB}, v \in values }
        inner == { ExNode(ExNameA, c) : c \in UpToTwo(leaves) }
    IN  { ExNode(ExNameA, c) : c \in UpToTwo(leaves \cup inner) }

\* the fields of the tables
ExFields ==
    { ExField(EX_INT, ExNameA, hv[1], hv[2], ix, <<>>) :
        hv \in { <<0, ExNoValue>>, <<1, ExInt(1)>>, <<1, ExInt(2)>> }, ix \in {0, 1} }
    \cup { ExField(EX_INT, ExNameB, 0, ExNoValue, 0, <<>>) }
    \cup { ExField(EX_FLOAT, ExNameA, 1, ExFloat(f), 0, <<>>) : f \in {0, 5, 1000000} }
    \cup { ExField(EX_STRING, ExNameA, 1, ExString(s), 0, <<>>) : s \in {ExNameA, ExNameB} }
    \cup { ExField(EX_TABLE, ExNameA, hv[1], hv[2], 0, <<ExIntField(n)>>) :
             hv \in { <<0, ExNoValue>>, <<1, ExTableValue>> }, n \in {ExNameA, ExNameB} }

ExSchemas == { <<f>> : f \in ExFields } \cup { <<ExIntField(ExNameA), ExIntField(ExNameB)>> }

\* files of one table "a" with cell in every cell, columns first
SchemaFiles(cell) ==
    { <<FileTable(ExNameA, fields, Len(fields), rows, cell)>> :
        fields \in ExSchemas, rows \in 0..2 }

\* files of one tree "a", of the trees "ab" and "a", and of an int "a" before
\* a tree "a"
TreeFiles(values) ==
    { <<FileTree(ExNameA, t)>> : t \in TreesOf(values) }
    \cup { <<FileTree(ExNameAB, ExNode(ExNameAB, <<ExLeaf(ExNameA, ExNameA, v)>>)),
             FileTree(ExNameA, ExNode(ExNameA, <<ExLeaf(ExNameA, ExNameA, w)>>))>> :
             v \in values, w \in values }
    \cup { <<FileInt(ExNameA, v), FileTree(ExNameA, ExNode(ExNameA, <<ExLeaf(ExNameA, ExNameA, v)>>))>> :
             v \in values }

\* paths of one to three names
ExPaths ==
    LET names == {ExNameA, ExNameAB, ExNameB}
    IN  names \cup { a \o <<ExDot>> \o b : a \in names, b \in names }
              \cup { a \o <<ExDot>> \o b \o <<ExDot>> \o c : a \in names, b \in names, c \in names }

ExNext ==
    \/ /\ exlast.op = "none"
       /\ \E file \in TreeFiles({1}) \cup SchemaFiles(1) : ExRead(file)
    \/ /\ exlast.op = "read"
       /\ \E name \in ExPaths : ExGet(name)
    \/ /\ exlast.op = "read"
       /\ \E file \in TreeFiles({2, 3}) \cup SchemaFiles(2) : ExAppend(Loaded(file))

(***************************************************************************)
(*  qnt.c: QNT images                                                      *)
(*                                                                         *)
(*  A cg is its width, its height and its RGBA pixels in raster order      *)
(*  (pixel k is <<r, g, b, a>>).  A QNT file is its header and the two     *)
(*  byte streams handed to compress2; uncompress returns what compress2    *)
(*  was given (zlib is lossless).                                          *)
(***************************************************************************)
MaxDim == 3

\* the pixels the images are made of
QntPixels == { <<10, 200, 30, 255>>, <<250, 5, 77, 0>> }

\* what a byte that was never written may hold
QntUninit == {0, 255}

\* the images of width w and height h
QntCgs(w, h) == { [w |-> w, h |-> h, pixels |-> p] : p \in [0..(w * h - 1) -> QntPixels] }

Byte(n) == n % 256

\* (n + 1) & ~1
EvenUp(n) == n + (n % 2)

\* rows[y][x*4+c] of the bitmap buffer of qnt_write: the image, zero in the
\* padding
BitmapAt(cg, y, x, c) ==
    IF x < cg.w /\ y < cg.h THEN cg.pixels[y * cg.w + x][c + 1] ELSE 0

\* qnt.c filter: rows[y][x*4+c] after the call
filter(cg, y, x, c) ==
    IF x >= cg.w \/ y >= cg.h THEN 0
    ELSE IF y > 0 /\ x > 0
    THEN Byte(((BitmapAt(cg, y - 1, x, c) + BitmapAt(cg, y, x - 1, c)) \div 2)
              - BitmapAt(cg, y, x, c))
    ELSE IF y > 0 THEN Byte(BitmapAt(cg, y - 1, 0, c) - BitmapAt(cg, y, 0, c))
    ELSE IF x > 0 THEN Byte(BitmapAt(cg, 0, x - 1, c) - BitmapAt(cg, 0, x, c))
    ELSE BitmapAt(cg, 0, 0, c)

\* qnt.c encode_pixels: the buffer given to compress2, from index 0
encode_pixels(cg) ==
    LET width == EvenUp(cg.w)
        height == EvenUp(cg.h)
    IN  [p \in 0..(width * height * 3 - 1) |->
            LET plane == p \div (width * height)
                block == (p % (width * height)) \div 4
                y == 2 * (block \div (width \div 2)) + (p % 2)
                x == 2 * (block % (width \div 2)) + ((p % 4) \div 2)
            IN  filter(cg, y, x, 2 - plane)]

\* qnt.c encode_alpha
encode_alpha(cg) ==
    LET width == EvenUp(cg.w)
        height == EvenUp(cg.h)
    IN  [p \in 0..(width * height - 1) |-> filter(cg, p \div width, p % width, 3)]

NoQnt == [width |-> 0, height |-> 0, pixel |-> <<>>, alpha |-> <<>>]

\* qnt.c qnt_write
qnt_write(cg) ==
    [width |-> cg.w, height |-> cg.h, pixel |-> encode_pixels(cg), alpha |-> encode_alpha(cg)]

\* qnt.c extract_pixel: pic[k*3+i] for pixel k and channel i
extract_pixel(qnt, i) ==
    LET w == qnt.width
        h == qnt.height
        \* j when the loops reach the block of (y, x) in the plane of i
        j(y, x) == (2 - i) * ((h + 1) \div 2) * ((w + 1) \div 2) * 4
                   + (y \div 2) * ((w + 1) \div 2) * 4 + (x \div 2) * 4
        raw(y, x) == qnt.pixel[j(y, x) + (y % 2) + 2 * (x % 2)]
        pic[k \in 0..(w * h - 1)] ==
            LET y == k \div w
                x == k % w
            IN  IF y = 0
                THEN IF x = 0 THEN raw(0, 0) ELSE Byte(pic[k - 1] - raw(y, x))
                ELSE IF x = 0 THEN Byte(pic[k - w] - raw(y, x))
                ELSE Byte(((pic[k - w] + pic[k - 1]) \div 2) - raw(y, x))
    IN  pic

\* qnt.c extract_alpha: pic[k]; pic is malloc'ed and pic[0] holds uninit
\* where the function does not write it
extract_alpha(qnt, uninit) ==
    LET w == qnt.width
        h == qnt.height
        \* i at the start of row y
        start(y) == IF y = 0 THEN 0
                    ELSE (IF w > 1 THEN w + (w % 2) ELSE 1) + (y - 1) * (w + (w % 2))
        pic[k \in 0..(w * h - 1)] ==
            LET y == k \div w
                x == k % w
                i == start(y) + x
            IN  IF y = 0
                THEN IF x = 0 THEN (IF w > 1 THEN qnt.alpha[0] ELSE uninit)
                     ELSE Byte(pic[k - 1] - qnt.alpha[i])
                ELSE IF x = 0 THEN Byte(pic[k - w] - qnt.alpha[i])
                ELSE Byte(((pic[k - 1] + pic[k - w]) \div 2) - qnt.alpha[i])
    IN  pic

\* qnt.c qnt_extract
qnt_extract(qnt, uninit) ==
    LET r == extract_pixel(qnt, 0)
        g == extract_pixel(qnt, 1)
        b == extract_pixel(qnt, 2)
        a == extract_alpha(qnt, uninit)
    IN  [w |-> qnt.width, h |-> qnt.height,
         pixels |-> [k \in 0..(qnt.width * qnt.height - 1) |-> <<r[k], g[k], b[k], a[k]>>]]

NoCg == [w |-> 0, h |-> 0, pixels |-> <<>>]

\* qnt_write(cg, f)
QntWrite(cg) ==
    /\ qfile = NoQnt
    /\ qcg' = cg
    /\ qfile' = qnt_write(cg)
    /\ UNCHANGED qout
    /\ UNCHANGED notQnt

\* qnt_extract(data, &cg) on the file written
QntExtract ==
    /\ qfile # NoQnt
    /\ qout = NoCg
    /\ \E uninit \in QntUninit : qout' = qnt_extract(qfile, uninit)
    /\ UNCHANGED <<qcg, qfile>>
    /\ UNCHANGED notQnt

QntInit ==
    /\ qcg = NoCg
    /\ qfile = NoQnt
    /\ qout = NoCg

QntIdle ==
    /\ qcg = [w |-> -1, h |-> -1, pixels |-> <<>>]
    /\ qfile = NoQnt
    /\ qout = NoCg

QntNext ==
    \/ \E w \in 1..MaxDim, h \in 1..MaxDim : \E cg \in QntCgs(w, h) : QntWrite(cg)
    \/ QntExtract

(***************************************************************************)
(*                          specifications                                 *)
(***************************************************************************)

vars == <<strVars, bufVars, arVars, aarVars, afaVars, afa3Vars, dasmVars, ainVars, savVars, rsvVars, exVars, qntVars>>

InitString == StrInit /\ BufIdle /\ ArIdle /\ AarIdle /\ AfaIdle /\ Afa3Idle /\ DasmIdle /\ AinIdle /\ SavIdle /\ RsvIdle /\ ExIdle /\ QntIdle
SpecString == InitString /\ [][StrNext]_vars

InitBuffer == BufInit /\ StrIdle /\ ArIdle /\ AarIdle /\ AfaIdle /\ Afa3Idle /\ DasmIdle /\ AinIdle /\ SavIdle /\ RsvIdle /\ ExIdle /\ QntIdle
SpecBuffer == InitBuffer /\ [][BufNext]_vars

InitArchive == ArInit /\ AarIdle /\ AfaIdle /\ Afa3Idle /\ StrIdle /\ BufIdle /\ DasmIdle /\ AinIdle /\ SavIdle /\ RsvIdle /\ ExIdle /\ QntIdle
SpecArchive == InitArchive /\ [][ArNext]_vars

InitDasm == DasmInit /\ StrIdle /\ BufIdle /\ ArIdle /\ AarIdle /\ AfaIdle /\ Afa3Idle /\ AinIdle /\ SavIdle /\ RsvIdle /\ ExIdle /\ QntIdle
InitAfaGet == AfaInit /\ Afa3Idle /\ StrIdle /\ BufIdle /\ ArIdle /\ AarIdle /\ DasmIdle /\ AinIdle /\ SavIdle /\ RsvIdle /\ ExIdle /\ QntIdle
SpecAfaGet == InitAfaGet /\ [][AfaNext]_vars

InitAfa3 == Afa3Init /\ StrIdle /\ BufIdle /\ ArIdle /\ AarIdle /\ AfaIdle /\ DasmIdle /\ AinIdle /\ SavIdle /\ RsvIdle /\ ExIdle /\ QntIdle
SpecAfa3 == InitAfa3 /\ [][Afa3Next]_vars

InitAar == AarInit /\ AfaIdle /\ Afa3Idle /\ StrIdle /\ BufIdle /\ ArIdle /\ DasmIdle /\ AinIdle /\ SavIdle /\ RsvIdle /\ ExIdle /\ QntIdle
SpecAar == InitAar /\ [][AarNext]_vars
\* a call that has been entered keeps running: the loop and the read of
\* aar_load_file are steps of one thread
SpecAarFair == SpecAar /\ WF_vars(AarWhile) /\ WF_vars(AarRead)

SpecDasm == InitDasm /\ [][DasmNext]_vars

InitDasmCode == DasmCodeInit /\ StrIdle /\ BufIdle /\ ArIdle /\ AarIdle /\ AfaIdle /\ Afa3Idle /\ AinIdle /\ SavIdle /\ RsvIdle /\ ExIdle /\ QntIdle
SpecDasmCode == InitDasmCode /\ [][DasmCodeNext]_vars

InitAin == AinInit /\ StrIdle /\ BufIdle /\ ArIdle /\ AarIdle /\ AfaIdle /\ Afa3Idle /\ DasmIdle /\ SavIdle /\ RsvIdle /\ ExIdle /\ QntIdle
SpecAin == InitAin /\ [][AinNext]_vars

SpecInstructions == InitAin /\ [][InstructionsNext]_vars

InitSavefile == SavInit /\ StrIdle /\ BufIdle /\ ArIdle /\ AarIdle /\ AfaIdle /\ Afa3Idle /\ DasmIdle /\ AinIdle /\ RsvIdle /\ ExIdle /\ QntIdle
SpecSavefile == InitSavefile /\ [][SavNext]_vars

InitRsave == RsvInit /\ StrIdle /\ BufIdle /\ ArIdle /\ AarIdle /\ AfaIdle /\ Afa3Idle /\ DasmIdle /\ AinIdle /\ SavIdle /\ ExIdle /\ QntIdle
SpecRsave == InitRsave /\ [][RsvNext]_vars

InitEx == ExInit /\ StrIdle /\ BufIdle /\ ArIdle /\ AarIdle /\ AfaIdle /\ Afa3Idle /\ DasmIdle /\ AinIdle /\ SavIdle /\ RsvIdle /\ QntIdle
SpecExRead == InitEx /\ [][ExReadNext]_vars
SpecEx == InitEx /\ [][ExNext]_vars

InitQnt == QntInit /\ StrIdle /\ BufIdle /\ ArIdle /\ AarIdle /\ AfaIdle /\ Afa3Idle /\ DasmIdle /\ AinIdle /\ SavIdle /\ RsvIdle /\ ExIdle
SpecQnt == InitQnt /\ [][QntNext]_vars

(***************************************************************************)
(*                              claims                                     *)
(***************************************************************************)

Mutators == {"append", "push_back", "pop_back", "erase", "set_char", "clear"}

\* C1: after a mutator (append, push_back, pop_back, erase, set_char, clear)
\* has run on a string that was shared (ref > 1), every other holder still
\* observes the bytes and the size it observed before the call.
C1_SharedMutationIsolated ==
    (slast.op \in Mutators /\ slast.shared) =>
        \A h2 \in Holders \ {slast.h} : View(h2) = slast.before[h2]

ReadOps == {"read_u8", "read_u16", "read_int32", "read_float", "read_bytes",
            "read_string", "skip_string", "read_pascal_string", "conv_pascal_string"}

\* C2: a buffer read (8/16/32-bit integer, float, fixed-length bytes,
\* length-prefixed string, NUL-terminated string) that would consume bytes
\* beyond size fails with the out-of-bounds error; it returns no data and the
\* cursor does not pass size.
C2_OverReadFails ==
    (bres.op \in ReadOps /\ bres.exceed) => (bres.status = "error" /\ bindex <= bsize)

\* C3: check_bytes(literal) advances the cursor by the length of the literal
\* when the bytes at the cursor equal the literal, and leaves the cursor
\* where it was when they do not.
C3_CheckBytesAdvancesOnlyOnMatch ==
    bres.op = "check_bytes" =>
        IF BytesEqual(bres.pre, bres.arg.data)
        THEN bindex = bres.pre + Len(bres.arg.data)
        ELSE bindex = bres.pre

\* C4: after any sequence of read-side operations the cursor satisfies
\* 0 <= index <= size.
C4_CursorWithinBuffer == 0 <= bindex /\ bindex <= bsize

\* the key under which a backend indexes a file name
NameKey(a, name) == IF a.backend = "aar" THEN sjis_normalize_path(name) ELSE name

\* the files of archive a that carry the name `name`
FilesNamed(a, name) ==
    { i \in 0..(nr_files(a) - 1) :
          /\ for_each_descriptor(a, i).state = "live"
          /\ NameKey(a, for_each_descriptor(a, i).name) = NameKey(a, name) }

\* C5 (as stated): for every archive of every backend and every id for which
\* get(id) returns an entry e, get_by_name(e.name) returns an entry with the
\* same name and the same id.
C5_NameLookupRoundTrip ==
    acall.op = "get_by_name" =>
        \A id \in Ids(ar) :
            (Got(ar, id).state = "live" /\ Got(ar, id).name = acall.arg)
                => (desc.state = "live" /\ desc.name = acall.arg /\ desc.no = id)

\* C5 (amended): for ALD, AFA and AAR archives and every id for which get(id)
\* returns an entry e whose name no other file of the archive carries (AAR
\* compares names after sjis_normalize_path), get_by_name(e.name) returns an
\* entry with the same name and the same id; ALK and DLF archives have no
\* name lookup and get_by_name returns no entry.
C5_NameLookupRoundTripUnique ==
    acall.op = "get_by_name" =>
        IF ar.backend \in {"alk", "dlf"}
        THEN desc.state = "null"
        ELSE \A id \in Ids(ar) :
                 ( /\ Got(ar, id).state = "live"
                   /\ Got(ar, id).name = acall.arg
                   /\ Cardinality(FilesNamed(ar, acall.arg)) = 1 )
                     => (desc.state = "live" /\ desc.name = acall.arg /\ desc.no = id)

C5_Witness ==
    /\ acall.op = "get_by_name"
    /\ ar.backend = "aar"
    /\ Len(ar.files) = 2
    /\ desc.state = "live" /\ desc.no = 1
    /\ Got(ar, 1).state = "live" /\ Got(ar, 1).name = acall.arg
    /\ Cardinality(FilesNamed(ar, acall.arg)) = 1

\* C6: for any sequence of load and release calls on a descriptor followed by
\* freeing the descriptor, no pointer into the mapping is passed to free, and
\* every payload buffer allocated by a load has been freed exactly once: no
\* buffer is freed that is not live, and none is live once the descriptor is
\* gone.
C6_PayloadFreedExactlyOnce ==
    /\ heap.bad = {}
    /\ desc.state \in {"none", "null"} => heap.live = {}

\* C7 (as stated): iterating an archive presents the entries with strictly
\* increasing `no`.
C7_IterationIncreasingNo ==
    \A k \in 1..(Len(iter.seen) - 1) : iter.seen[k].no < iter.seen[k + 1].no

\* C7 (amended): iterating an archive presents the entries in file-table
\* order; for ALD, AAR, ALK and DLF archives and for AFA archives without
\* stored ids the `no` of an entry is its table index, so `no` is strictly
\* increasing; an AFA entry with stored ids carries the stored id minus one,
\* or its table index when the stored id is 0.
C7_IterationTableOrder ==
    /\ \A k \in 1..(Len(iter.seen) - 1) : iter.seen[k].i < iter.seen[k + 1].i
    /\ \A k \in 1..Len(iter.seen) :
           iter.seen[k].no = IF ar.backend = "afa" /\ ar.has_number
                             THEN afa_entry_no(ar, iter.seen[k].i + 1)
                             ELSE iter.seen[k].i

C7_Witness ==
    /\ Len(iter.seen) = 2
    /\ ar.backend = "afa" /\ ar.has_number
    /\ iter.seen[1].no > iter.seen[2].no

\* the innermost function that is open, 0 (the value dasm_open leaves) when
\* none is
Innermost == IF dtrack.open = <<>> THEN 0 ELSE dtrack.open[Len(dtrack.open)]

C9_TableMatchesLastLoadedAin ==
    ilast.op = "ain_open" =>
        instructions = initialize_instructions(instructions0, ilast.version)

\* the 0-based indices of name in a table
IndicesOf(tbl, name) == { i - 1 : i \in { j \in 1..Len(tbl) : tbl[j] = name } }

\* C10: in every state reached by parsing and by builder calls, a function
\* whose name contains `@` has a struct_type or enum_type equal to the index
\* of the struct or enum named by the prefix before `@` whenever one exists,
\* and -1 for both otherwise.
C10_MemberFunctionTypes ==
    \A i \in 1..Len(ain.functions) :
        LET f == ain.functions[i]
            SI == IndicesOf(ain.structures, PrefixOf(f.name))
            EI == IndicesOf(ain.enums, PrefixOf(f.name))
        IN  strchr_at(f.name) # 0 =>
                IF SI \cup EI = {}
                THEN f.struct_type = -1 /\ f.enum_type = -1
                ELSE f.struct_type \in SI \/ f.enum_type \in EI

\* the lookup string name#n
NameHashN(name, n) == name \o <<35>> \o Decimal(n)

\* the functions whose name is `name`, in declaration order
Declared(name) ==
    SelectSeq([i \in 1..Len(ain.functions) |-> i - 1],
              LAMBDA i : ain.functions[i + 1].name = name)

\* C11 (as stated): for every function index i the list of the name index
\* for functions[i].name contains i and is in declaration order, and looking
\* up name#n returns the n-th function of that list.
C11_NameIndex ==
    \A i \in 1..Len(ain.functions) :
        LET name == ain.functions[i].name
        IN  /\ name \in DOMAIN ain._func_ht
            /\ ain._func_ht[name] = Declared(name)
            /\ \A n \in 0..(Len(Declared(name)) - 1) :
                   ain_get_function(ain, NameHashN(name, n)) = Declared(name)[n + 1]

\* C11 (amended): the list of the name index for functions[i].name is the
\* declaration-ordered list of the functions of that name (so it contains
\* i), and looking up name#n returns its n-th function when the name
\* contains no '#'.
C11_NameIndexNoHash ==
    \A i \in 1..Len(ain.functions) :
        LET name == ain.functions[i].name
        IN  /\ name \in DOMAIN ain._func_ht
            /\ ain._func_ht[name] = Declared(name)
            /\ strchr_hash(name) = 0 =>
                   \A n \in 0..(Len(Declared(name)) - 1) :
                       ain_get_function(ain, NameHashN(name, n)) = Declared(name)[n + 1]

\* two functions of one name, the second one found by name#1
C11_Witness ==
    \E i \in 1..Len(ain.functions) :
        /\ Len(Declared(ain.functions[i].name)) = 2
        /\ ain_get_function(ain, NameHashN(ain.functions[i].name, 1)) = i - 1
        /\ i - 1 > 0

\* C12: for every ain produced by the reader each
\* global_initvals[i].global_index lies in [0, nr_globals), and applying the
\* initial values writes only to globals of that program.
C12_InitvalsInsideGlobals ==
    /\ ain # Crashed
    /\ ain.wild = {}
    /\ \A i \in 1..Len(ain.global_initvals) :
           ain.global_initvals[i].global_index \in 0..(Len(ain.globals) - 1)

\* the value val of the declared type points into the table of g that the
\* type names (the empty-string sentinel stands for a string from version 7)
PointsIntoTable(val, type, g) ==
    CASE type = AIN_STRING ->
           val \in 0..(Len(g.strings) - 1) \/ (g.version >= 7 /\ val = GSAVE7_EMPTY_STRING)
      [] type = AIN_STRUCT -> val \in 0..(Len(g.records) - 1)
      [] type \in AIN_ARRAY_TYPE -> val \in 0..(Len(g.arrays) - 1)
      [] OTHER -> TRUE

\* the declared type of key-value kv (0-based) of g: stored with the
\* key-value up to version 5, from version 7 the type of the field of the
\* struct definition of a record that lists it; the set is empty when no
\* record with a struct definition lists it
DeclaredTypes(g, kv) ==
    IF g.version <= 5 THEN { g.keyvals[kv + 1].type }
    ELSE UNION { { g.struct_defs[g.records[i].struct_index + 1].fields[k].type :
                     k \in { m \in 1..Len(g.records[i].indices) :
                               /\ g.records[i].indices[m] = kv
                               /\ m <= Len(g.struct_defs[g.records[i].struct_index + 1].fields) } } :
                 i \in { j \in 1..Len(g.records) :
                           /\ g.records[j].type = GSAVE_RECORD_STRUCT
                           /\ g.records[j].struct_index \in 0..(Len(g.struct_defs) - 1) } }

IndicesValid(g) ==
    /\ \A i \in 1..Len(g.records) : \A k \in 1..Len(g.records[i].indices) :
           g.records[i].indices[k] \in
               0..((IF g.records[i].type = GSAVE_RECORD_STRUCT
                    THEN Len(g.keyvals) ELSE Len(g.globals)) - 1)
    /\ \A i \in 1..Len(g.globals) :
           PointsIntoTable(g.globals[i].value, g.globals[i].type, g)
    /\ \A i \in 1..Len(g.arrays) : \A j \in 1..Len(g.arrays[i].flat_arrays) :
           \A k \in 1..Len(g.arrays[i].flat_arrays[j].values) :
               LET v == g.arrays[i].flat_arrays[j].values[k]
               IN  PointsIntoTable(v.value, v.type, g)
    /\ \A i \in 1..Len(g.keyvals) : \A type \in DeclaredTypes(g, i - 1) :
           PointsIntoTable(g.keyvals[i].value, type, g)

\* C13: whenever gsave parsing succeeds, every index stored in a record,
\* global, array value or key-value points into the table its declared type
\* names; a file with an index outside its target table is rejected.
C13_ParsedIndicesValid ==
    gres.error = "SAVEFILE_SUCCESS" => IndicesValid(gres.gs)

\* the types gsave_validate_value knows
KnownType(type) ==
    type \in AIN_PLAIN_TYPE \cup AIN_REF_TYPE \cup AIN_ARRAY_TYPE \cup {AIN_STRING, AIN_STRUCT}

\* a well-formed gsave: every index points into its table and every type is
\* one of the format (the arrays of the model have matching dimensions)
WellFormed(g) ==
    /\ IndicesValid(g)
    /\ \A i \in 1..Len(g.globals) : KnownType(g.globals[i].type)
    /\ \A i \in 1..Len(g.keyvals) : KnownType(g.keyvals[i].type)

\* the gsave as its version stores it: the fields that the format of the
\* version does not hold are 0 or NULL, and from version 7 the type of an
\* array value is the type of its flat array
Stored(g) ==
    LET old == g.version <= 5
    IN  [g EXCEPT
          !.records = [i \in 1..Len(@) |->
              IF old THEN [@[i] EXCEPT !.struct_index = 0]
              ELSE [@[i] EXCEPT !.struct_name = NullStr]],
          !.globals = [i \in 1..Len(@) |->
              IF old THEN @[i] ELSE [@[i] EXCEPT !.unknown = 0]],
          !.arrays = [i \in 1..Len(@) |->
              [@[i] EXCEPT !.flat_arrays = [j \in 1..Len(@) |->
                  IF old THEN [@[j] EXCEPT !.type = 0] ELSE @[j]]]],
          !.keyvals = [i \in 1..Len(@) |->
              IF old THEN @[i] ELSE [@[i] EXCEPT !.type = 0, !.name = NullStr]],
          !.struct_defs = IF old THEN <<>> ELSE @]

\* C15 (as stated): for every well-formed gsave x, parsing the bytes
\* produced by writing x succeeds and yields a gsave equal to x in every
\* field.
C15_RoundTrip ==
    (gres # NoParse /\ WellFormed(gs)) =>
        (gres.error = "SAVEFILE_SUCCESS" /\ gres.gs = gs)

\* C15 (amended): parsing the bytes produced by writing a well-formed gsave
\* x succeeds and yields x as its version stores it.
C15_RoundTripStored ==
    (gres # NoParse /\ WellFormed(gs)) =>
        (gres.error = "SAVEFILE_SUCCESS" /\ gres.gs = Stored(gs))

\* a version 7 gsave with a string global holding the empty-string sentinel,
\* a string and an array has been written and read back
C15_Witness ==
    /\ gres.error = "SAVEFILE_SUCCESS"
    /\ gs.version = 7
    /\ Len(gs.globals) = 1 /\ gs.globals[1].type = AIN_STRING
    /\ gs.globals[1].value = GSAVE7_EMPTY_STRING
    /\ Len(gs.strings) = 1 /\ Len(gs.arrays) = 1
    /\ gres.gs.globals[1].value = GSAVE7_EMPTY_STRING

\* the slots of a parsed heap object that hold heap indices: the string
\* slots of a frame or struct, the elements of an array of strings and the
\* slots of a delegate
HeapIndexSlots(obj) ==
    CASE obj.tag \in {RSAVE_GLOBALS, RSAVE_LOCALS, RSAVE_STRUCT} ->
           { k \in 1..obj.nr_slots : k <= Len(obj.types) /\ obj.types[k] = AIN_STRING }
      [] obj.tag = RSAVE_ARRAY ->
           IF obj.data_type = AIN_ARRAY_STRING THEN 1..obj.nr_slots ELSE {}
      [] obj.tag = RSAVE_DELEGATE -> 1..obj.nr_slots
      [] OTHER -> {}

\* C14: whenever rsave parsing succeeds, every heap index in a slot of a
\* Frame, Array, Struct or Delegate heap object is the index of an existing
\* heap object or the Null sentinel (-1).
C14_HeapSlotsValid ==
    rres.error = "SAVEFILE_SUCCESS" =>
        \A i \in 1..Len(rres.rs.heap) : \A k \in HeapIndexSlots(rres.rs.heap[i]) :
            \/ rres.rs.heap[i].slots[k] = -1
            \/ rres.rs.heap[i].slots[k] \in 0..(Len(rres.rs.heap) - 1)

\* the tables of the file read last whose count words were accepted
ReadTables == IF exlast.op \in {"read", "ERROR"} THEN exlast.tables ELSE <<>>

\* the persisted counts of table k do not match its schema but match it
\* when swapped
CountsSwapped(k) ==
    /\ ReadTables[k].w1 # ReadTables[k].nr_fields
    /\ ReadTables[k].w2 = ReadTables[k].nr_fields

\* table k was read with the swapped interpretation: rows first
ReadRowsFirst(k) ==
    /\ ReadTables[k].nr_rows = ReadTables[k].w1
    /\ ReadTables[k].nr_columns = ReadTables[k].w2

\* C17: while reading one EX file, a table whose persisted counts do not
\* match its schema but match it when swapped is read swapped and leaves the
\* reader in the swapped interpretation; the reader switches at most once, at
\* the first such table, and every later table of the file is read swapped.
C17_SwapLatched ==
    \A k \in 1..Len(ReadTables) :
        /\ CountsSwapped(k) =>
              /\ ReadTables[k].after = "TABLE_ROWS_FIRST"
              /\ \A j \in k..Len(ReadTables) : ReadRowsFirst(j)
        /\ ReadTables[k].before # ReadTables[k].after =>
              /\ CountsSwapped(k)
              /\ \A j \in 1..(k - 1) : ~CountsSwapped(j)
              /\ \A j \in 1..Len(ReadTables) :
                    j # k => ReadTables[j].before = ReadTables[j].after

\* a file was read whose first table switched the reader and whose second
\* table has different count words
C17_Witness ==
    /\ exlast.op = "read"
    /\ Len(ReadTables) >= 2
    /\ CountsSwapped(1)
    /\ ReadTables[1].before = "TABLE_DEFAULT"
    /\ ReadTables[2].w1 # ReadTables[2].w2

\* the names of a dotted path
RECURSIVE SplitDots(_)
SplitDots(path) ==
    LET next == strchr_dot(path)
    IN  IF next = 0 THEN <<path>>
        ELSE <<SubSeq(path, 1, next - 1)>> \o SplitDots(SubSeq(path, next + 1, Len(path)))

\* the node reached from tree by ex_tree_get_child with names[k], names[k+1],
\* ...; none when a child is not found
RECURSIVE Descend(_, _, _)
Descend(tree, names, k) ==
    IF k > Len(names) THEN [none |-> FALSE, node |-> tree]
    ELSE LET i == ex_tree_get_child(tree, names[k])
         IN  IF i = 0 THEN [none |-> TRUE, node |-> tree]
             ELSE Descend(tree.children[i], names, k + 1)

\* the value found by resolving the tree block named exactly names[1] and
\* calling ex_tree_get_child with the exact names that follow
Traverse(blocks, names) ==
    LET b == ex_get_block(blocks, names[1], EX_TREE)
        d == Descend(blocks[b].tree, names, 2)
    IN  IF b = 0 THEN ExNull
        ELSE IF d.none THEN ExNull
        ELSE IF d.node.is_leaf THEN ExPtr(d.node.leaf.value.type, d.node.leaf.value.i, ExNoTree)
        ELSE ExPtr(EX_TREE, 0, d.node)

\* C16: for every EX file and every dotted path a.b.c, ex_get returns the
\* value found by resolving the block named exactly a and calling
\* ex_tree_get_child with the exact names b and c, and none when that
\* traversal finds nothing.
C16_GetIsTraversal ==
    (exlast.op = "get" /\ strchr_dot(exlast.name) # 0) =>
        exlast.result = Traverse(ex, SplitDots(exlast.name))

\* ex_append was called with one table on an object of one table
TableAppended ==
    /\ exlast.op \in {"append", "ERROR"}
    /\ Len(exlast.base) = 1 /\ exlast.base[1].type = EX_TABLE
    /\ Len(exlast.append) = 1 /\ exlast.append[1].type = EX_TABLE

\* C18: appending table b to table a is accepted if and only if their
\* schemas are equal field by field (type, name, default value, index flag
\* and subfields, recursively); when accepted the result keeps the schema and
\* has |a.rows| + |b.rows| rows, otherwise the operation ends in a fatal error.
C18_AppendIffSchemaEqual ==
    TableAppended =>
        LET a == exlast.base[1].t
            b == exlast.append[1].t
        IN  /\ exlast.op = "append" <=> a.fields = b.fields
            /\ exlast.op = "append" =>
                  /\ ex[1].t.fields = a.fields
                  /\ ex[1].t.nr_rows = a.nr_rows + b.nr_rows
                  /\ Len(ex[1].t.rows) = Len(a.rows) + Len(b.rows)

\* ex_append was called with one tree and appended it onto a tree
TreeAppended ==
    /\ exlast.op = "append"
    /\ Len(exlast.append) = 1 /\ exlast.append[1].type = EX_TREE
    /\ ex_get_block(exlast.base, exlast.append[1].name, EX_TREE) # 0

AppendSrc == exlast.append[1].tree
AppendDst == exlast.base[ex_get_block(exlast.base, exlast.append[1].name, EX_TREE)].tree
AppendOut == ex[ex_get_block(exlast.base, exlast.append[1].name, EX_TREE)].tree

\* the leaves of a tree: position (child indices), path (child names), value
RECURSIVE LeavesOf(_)
LeavesOf(tree) ==
    IF tree.is_leaf THEN { [pos |-> <<>>, path |-> <<>>, value |-> tree.leaf.value] }
    ELSE UNION { { [pos |-> <<i>> \o l.pos, path |-> <<tree.children[i].name>> \o l.path,
                    value |-> l.value] : l \in LeavesOf(tree.children[i]) } :
                 i \in 1..Len(tree.children) }

RECURSIVE NodeAt(_, _)
NodeAt(tree, pos) ==
    IF pos = <<>> THEN tree ELSE NodeAt(tree.children[Head(pos)], Tail(pos))

\* the value of the leaf found under a path of child names, ExNoValue when
\* there is none
LeafUnder(tree, path) ==
    LET d == Descend(tree, path, 1)
    IN  IF d.none \/ ~d.node.is_leaf THEN ExNoValue ELSE d.node.leaf.value

Merged(src, dst, out) ==
    /\ \A l \in LeavesOf(src) : LeafUnder(out, l.path) = l.value
    /\ \A l \in LeavesOf(dst) :
          l.path \notin { m.path : m \in LeavesOf(src) } =>
              NodeAt(out, l.pos).leaf.value = l.value

\* C19 as stated: after appending tree src onto tree dst, every leaf of src
\* is found in dst under the same path of child names carrying the value
\* from src, and every leaf of dst whose path does not occur in src keeps its
\* previous value.
C19_AppendMerges == TreeAppended => Merged(AppendSrc, AppendDst, AppendOut)

\* the children of every node have pairwise different names
RECURSIVE DistinctNames(_)
DistinctNames(tree) ==
    /\ \A i, j \in 1..Len(tree.children) :
          i # j => tree.children[i].name # tree.children[j].name
    /\ \A i \in 1..Len(tree.children) : DistinctNames(tree.children[i])

\* C19 for a src whose sibling names are pairwise different: after the
\* append every leaf of src is found in dst under the same path with the
\* value from src, and every leaf of dst whose path does not occur in src
\* keeps its value.
C19_AppendMergesDistinct ==
    (TreeAppended /\ DistinctNames(AppendSrc)) => Merged(AppendSrc, AppendDst, AppendOut)

\* an append that replaced the value of a leaf two levels down, added a leaf
\* and left a leaf of dst alone
C19_Witness ==
    /\ TreeAppended
    /\ DistinctNames(AppendSrc)
    /\ \E l \in LeavesOf(AppendSrc) :
          /\ Len(l.path) = 2
          /\ LeafUnder(AppendDst, l.path) \notin {ExNoValue, l.value}
    /\ \E l \in LeavesOf(AppendSrc) : LeafUnder(AppendDst, l.path) = ExNoValue
    /\ \E l \in LeavesOf(AppendDst) : l.path \notin { m.path : m \in LeavesOf(AppendSrc) }

\* C20: for every RGBA image of every width >= 1 and height >= 1, decoding
\* the QNT encoding of the image returns exactly the original colour and
\* alpha value of every pixel.
C20_QntRoundTrip == qout # NoCg => qout = qcg


\* C27: the row/column interpretation chosen while reading one EX file does
\* not influence how a later EX file is read in the same process: every file
\* is parsed as if it were the first one read.
C27_ReadAsFirstFile ==
    (exlast.op \in {"read", "ERROR"} /\ "file" \in DOMAIN exlast) =>
        LET alone == _ex_read(exlast.file, "TABLE_DEFAULT")
        IN  /\ alone.error <=> exlast.op = "ERROR"
            /\ ~alone.error => ex = alone.blocks


\* C29: parsing rsave call frames never reads the struct-pointer array at an
\* index at or beyond its length: a file with more method-call frames than
\* struct pointers is rejected without any out-of-range read.
C29_NoReadBeyondStructPtrs == rres.beyond = 0


\* every child value handle of every internal node of tree refers to the
\* node's current children array, at its own index
RECURSIVE HandlesCurrent(_)
HandlesCurrent(tree) ==
    /\ Len(tree._children) = Len(tree.children)
    /\ \A i \in 1..Len(tree.children) :
          /\ tree._children[i] = [at |-> tree.children_at, index |-> i]
          /\ HandlesCurrent(tree.children[i])

\* C28: after any sequence of tree appends, for every internal tree node and
\* every i below its child count, _children[i].tree refers to the node's
\* current children[i] and never to storage released by a reallocation.
C28_ChildHandlesCurrent ==
    exlast.op = "append" =>
        \A b \in 1..Len(ex) : ex[b].type = EX_TREE => HandlesCurrent(ex[b].tree)


\* C23: whenever the cursor is on an instruction that is followed by another
\* instruction, dasm_peek returns the opcode that dasm_opcode reports after
\* the next dasm_next; when no instruction follows it returns -1.
C23_PeekIsNextOpcode ==
    (dcode.op = "next" /\ dcode.peek.called) =>
        IF dcode.d.eof THEN dcode.peek.none
        ELSE /\ ~dcode.peek.none
             /\ dcode.peek.word = [optype |-> 0, opcode |-> dasm_opcode]

\* C24: when the cursor is on a 16-bit word that is not a valid opcode, the
\* disassembler raises a fatal error rather than reporting an instruction
\* for that word.
C24_InvalidOpcodeIsFatal ==
    (/\ dcode.op \in {"open", "peek", "next"}
     /\ ~dasm_eof(dcode.code, dcode.addr)
     /\ LittleEndian_getW(dcode.code, dcode.addr).opcode = "NR_OPCODES")
        => dcode.op = "ERROR"


\* toupper of an ASCII byte
ToUpper(c) == IF 97 <= c /\ c <= 122 THEN c - 32 ELSE c

\* two names are equal when case is ignored
SameNameIgnoringCase(x, y) ==
    Len(x) = Len(y) /\ \A i \in 1..Len(x) : ToUpper(x[i]) = ToUpper(y[i])

\* the regular entries at which the link chain of entry p ends, a link
\* leading to every entry that has the name of its target
RECURSIVE ChainEnds(_, _, _)
ChainEnds(files, p, fuel) ==
    IF files[p].type # AAR_SYMLINK THEN {p}
    ELSE IF fuel = 0 THEN {}
    ELSE UNION { ChainEnds(files, q, fuel - 1) :
                   q \in { q \in 1..Len(files) :
                              SameNameIgnoringCase(files[q].name, files[p].link) } }

\* the load has yielded what loading entry r yields: its payload, or the
\* failure to inflate it
YieldsPayloadOf(r) ==
    IF aar.files[r].type = AAR_COMPRESSED /\ ~aar.files[r].zlb THEN ~aload.ok
    ELSE aload.ok /\ aload.data = r

DistinctEntryNames ==
    \A p, q \in 1..Len(aar.files) :
        SameNameIgnoringCase(aar.files[p].name, aar.files[q].name) => p = q

C26_LoadTerminates == (aload.pc = "while") ~> (aload.pc = "return")


\* C30: for every archive and every id, exists(id) is true exactly when
\* get(id) returns an entry, provided that reading the underlying file does
\* not fail.
C30_ExistsIffGet ==
    acall.op = "get" => (exists(ar, acall.arg) <=> desc.state = "live")


\* C21: when reading an entry's payload fails during get on a non-mapped
\* archive, get returns no entry and every allocation made for that
\* descriptor (payload buffer, name, descriptor record) is freed exactly
\* once, with nothing freed twice or used after being freed.
C21_FailedGetFreesOnce ==
    (aget.op = "get" /\ aget.failed) =>
        /\ aget.d.rec = 0
        /\ ~aget.st.abort
        /\ aget.st.uaf = {}
        /\ \A p \in aget.first..Len(aget.st.mem) : aget.st.mem[p].frees = 1


\* the decoder of archive f run alone, from static storage sh
RECURSIVE ReadAlone(_, _, _)
ReadAlone(sh, loc, fuel) ==
    IF loc.pc = "done" \/ fuel = 0 THEN loc
    ELSE LET r == afa3_step(sh, loc, 0) IN ReadAlone(r.sh, r.loc, fuel - 1)

\* what a decoder has read: the error and the entries
TableRead(loc) == [error |-> loc.error, entries |-> loc.entries]

\* C25: reading the file tables of two AFA v3 archives with their decoding
\* steps interleaved yields, for each archive, the same entries as reading
\* that archive alone: no PRNG or dictionary state is shared between
\* decoders.
C25_InterleavedAsAlone ==
    \A p \in DOMAIN decoders :
        decoders[p].pc = "done" =>
            TableRead(decoders[p])
                = TableRead(ReadAlone(NoShared, Decoder(decoders[p].file), 4 * (MaxDict + MaxName) + 8))

\* read alone, the table of an archive holds the names the archive was
\* written with
AloneReadsNames ==
    \A p \in DOMAIN decoders :
        LET r == ReadAlone(NoShared, Decoder(decoders[p].file), 4 * (MaxDict + MaxName) + 8)
            f == decoders[p].file
        IN  /\ r.pc = "done" /\ ~r.error
            /\ Len(r.entries) = Len(f.names)
            /\ \A i \in 1..Len(f.names) :
                   r.entries[i].name
                       = [k \in 1..Len(f.names[i]) |-> BitXor(f.dict[f.names[i][k] + 1], 164, 8)]

====
